---- MODULE Spec2Model ----
(***************************************************************************)
(* Comment / live-chat import pipeline of the ingest tool.                 *)
(*                                                                         *)
(*   CommentImporter   src/modules/comment_importer.py                     *)
(*   retry_with_backoff src/modules/retry.py                               *)
(*   YouTubeProcessor  src/modules/youtube_processor.py                    *)
(*   BatchProcessor    src/modules/batch_processor.py                      *)
(*   UserRandomizer    src/modules/user_randomizer.py                      *)
(*   AssetCreator      src/modules/asset_creator.py (credentials)          *)
(*   main              src/ingest.py                                       *)
(*                                                                         *)
(* Specifications; the first four share the importer's actions:            *)
(*   Spec          one CommentImporter driven through its public methods   *)
(*                 with arbitrary record lists and arbitrary transport     *)
(*                 outcomes for every publish attempt;                     *)
(*   SpecPipeline  BatchProcessor.process_video for one video: raw flat    *)
(*                 comment list -> _process_flat_comments -> timestamp     *)
(*                 filter -> max_items_limit -> import_comments, against a *)
(*                 remote that answers every publish with a 2xx (with or   *)
(*                 without an id) or in dry-run mode.  The video has no    *)
(*                 live chat; anonymize_comments rewrites author fields    *)
(*                 only and neither drops nor reorders records.            *)
(*                                                                         *)
(*   SpecData      one import_comments call over record lists with data    *)
(*                 errors (missing 'comment' key, unparseable 2xx body);   *)
(*   SpecRetry     the same call for every max_retries from 0 to 3, and    *)
(*                 SpecRetryFair, the same with the call's own steps       *)
(*                 taken eventually;                                       *)
(*   SpecToken     the credential checks of import_comments                *)
(*                 (_ensure_valid_token and the check every 50 records),   *)
(*                 _refresh_token of CommentImporter and of AssetCreator,  *)
(*                 under a clock;                                          *)
(*   SpecAnon      UserRandomizer.anonymize_comments over flat lists;      *)
(*   SpecExpiry    _token_expires_soon as a function of token, threshold   *)
(*                 and clock;                                              *)
(*   SpecRun       main after authentication, and process_list over a      *)
(*                 list of videos, with an interrupt;                      *)
(*   SpecStamp     _extract_timestamp as a function of the comment text,   *)
(*                 the text being a sequence of characters.                *)
(*                                                                         *)
(* In Spec, SpecPipeline and SpecData the bearer token stays valid for the *)
(* whole run, so the credential checks never refresh and the credential    *)
(* state is constant there.                                                *)
(***************************************************************************)
EXTENDS Integers, Sequences, FiniteSets, TLC

\* ------------------------------------------------------------------ bounds

\* Longest record list handed directly to the importer (Spec).
MaxBatch == 2
\* Number of import calls made on one importer instance (Spec).
MaxCalls == 2
\* Longest raw flat comment list of a video (SpecPipeline).
MaxLen == 3
\* Number of import calls made on record lists with data errors (SpecData).
DataCalls == 1
\* Last instant of the clock, in seconds after the start of the run (SpecToken).
MaxTime == 2
\* Periodic credential checks the longest record list reaches (SpecToken).
MaxChecks == 1
\* Longest record list handed to anonymize_comments (SpecAnon).
MaxAnon == 3
\* Largest number get_randomized_name draws (SpecAnon).
MaxRandom == 2
\* Calls of AssetCreator._ensure_valid_token in a run (SpecToken).
MaxAssetCalls == 1
\* Number of import calls made under the clock (SpecToken).
TokenCalls == 1
\* Videos of one list file.
MaxVideos == 2
\* Pieces a comment text is put together from (SpecStamp).
MaxPieces == 4

\* ------------------------------------------------------- program constants

\* CommentImporter.__init__(max_retries: int = 3)
DefaultMaxRetries == 3
\* retry_with_backoff(initial_delay = 1.0)
InitialDelay == 1
\* retry_with_backoff(max_delay = 60.0)
MaxDelay == 60
\* retry_with_backoff(exponential_base = 2.0)
ExponentialBase == 2
\* time.sleep(2.0) before the single retry of a 500
Retry500Delay == 2
\* _token_expires_soon(token, threshold_seconds = 900)
ExpiryThreshold == 900
\* TOKEN_CHECK_INTERVAL = 50
TokenCheckInterval == 50

\* ------------------------------------------------------------ value domain

\* Python None for a record's parent_id (top-level comment, live chat).
None == "None"
\* yt-dlp's marker of a top-level comment in the flat format.
Root == "root"
\* Source ids by position in the source list; OrphanId never occurs as an id.
Ids == <<"c1", "c2", "c3", "c4", "c5">>
OrphanId == "zz"

\* A remote id is a tuple; the empty tuple is "no id" (None / missing key),
\* the only falsy remote value.
NoId == <<>>
Truthy(x) == x # NoId

\* str(n) of an int, int(s) and float(s) of such a string.
PyStr(n) == [str |-> n]
PyInt(s) == s.str
PyFloat(s) == [float |-> s.str]

Min(a, b) == IF a <= b THEN a ELSE b

\* dict.get(key, default) on a dict modelled as a function.
Get(map, key, default) == IF key \in DOMAIN map THEN map[key] ELSE default

EmptyMap == [k \in {} |-> NoId]

\* ------------------------------------------------------- transport outcomes

\* Outcome of one requests.post: a 2xx whose body carries a comment id, a 2xx
\* whose body carries none, a 4xx, a 500, another 5xx, or a transport
\* exception (ConnectionError / Timeout) raised before any response.
Outcomes == {"ok", "noid", "e404", "e500", "e503", "conn"}
Accepting == {"ok", "noid"}

\* A 2xx whose body is not JSON: response.json() raises.  requests >= 2.27
\* raises requests.exceptions.JSONDecodeError, a RequestException; older
\* releases let the json module's ValueError through.  The repository pins no
\* release, so both are outcomes of the same response.
Unparseable == {"json_reqexc", "json_valerr"}

\* response.status_code (0: no response, the post raised).
StatusOf(o) ==
  CASE o \in Accepting \cup Unparseable -> 200
    [] o = "e404" -> 404
    [] o = "e500" -> 500
    [] o = "e503" -> 503
    [] OTHER -> 0

Is4xx(o) == StatusOf(o) >= 400 /\ StatusOf(o) < 500

\* Class of the exception that one post-and-parse raises for outcome o:
\* raise_for_status() raises HTTPError for 4xx/5xx, the transport raises a
\* RequestException, response.json() raises as described above.
Raises(o) ==
  CASE StatusOf(o) >= 400 -> "HTTPError"
    [] o = "conn" -> "RequestException"
    [] o = "json_reqexc" -> "RequestException"
    [] o = "json_valerr" -> "ValueError"
    [] OTHER -> "none"

\* isinstance(e, requests.RequestException): HTTPError is a subclass.
IsRequestException(exc) == exc \in {"HTTPError", "RequestException"}
IsTransient(o) == o = "conn" \/ StatusOf(o) >= 500

VARIABLES
  \* CommentImporter instance
  dry_run, max_retries, imported_count, failed_count,
  \* frame of the running import_comments call
  pc, comments, idx, parent_map, attempt, delay,
  \* observation of the running call
  call_no, entry, payloads, imported_log, attempts, last, seen, waits,
  verdicts, rate_sleeps, returned,
  \* BatchProcessor.process_video
  vpc, comment_entries, extracted, max_items_limit, comments_imported,
  \* credentials of the CommentImporter, its periodic check, the clock
  jwt_token, refresh_token, backend_url, last_token_check, now,
  \* credentials of the AssetCreator
  ac_jwt_token, ac_refresh_token, ac_calls,
  \* observation of the refresh calls
  issued, refresh_posts, last_refresh,
  \* observation of the running call: its credential checks and the bearer
  \* token each requests.post carried
  checks, sent,
  \* UserRandomizer instance and its source of UUIDs
  name_map, avatar_map, user_id_map, uuid_count,
  \* the process-wide generator of the random module
  rng_state,
  \* the record list anonymize_comments works on, in place
  arecords, apos, apass,
  \* observation: the list as it was handed in, and as the first pass left it
  originals, first_pass,
  \* one _token_expires_soon call: its arguments, the clock, what it gave
  x_token, x_threshold, x_clock, x_result,
  \* one run of main / BatchProcessor.process_list
  run_pc, run_entry, run_mode, videos, results, summary, exit_status,
  \* one _extract_timestamp call: its argument and what it returned
  st_text, st_result

importer_vars == <<dry_run, max_retries, imported_count, failed_count>>
frame_vars == <<pc, comments, idx, parent_map, attempt, delay>>
ghost_vars == <<call_no, entry, payloads, imported_log, attempts, last, seen,
                waits, verdicts, rate_sleeps, returned>>
video_vars == <<vpc, comment_entries, extracted, max_items_limit,
                comments_imported>>
cred_vars == <<jwt_token, refresh_token, backend_url, last_token_check, now,
               ac_jwt_token, ac_refresh_token, ac_calls,
               issued, refresh_posts, last_refresh, checks, sent>>
anon_vars == <<name_map, avatar_map, user_id_map, uuid_count, rng_state,
               arecords, apos,
               apass, originals, first_pass>>
expiry_vars == <<x_token, x_threshold, x_clock, x_result>>
run_vars == <<run_pc, run_entry, run_mode, videos, results, summary, exit_status>>
stamp_vars == <<st_text, st_result>>
aux_vars == <<expiry_vars, run_vars, stamp_vars>>
side_vars == <<cred_vars, anon_vars, aux_vars>>
vars == <<importer_vars, frame_vars, ghost_vars, video_vars, side_vars>>

\* ------------------------------------------------------------- record lists

ParentChoices(n) == {None, OrphanId} \cup {Ids[j] : j \in 1..n}

\* Record lists of length n: record i has yt_id Ids[i] and any parent_id.
BatchesOfLen(n) ==
  { [i \in 1..n |-> [yt_id |-> Ids[i], parent_id |-> p[i],
                     commented_at |-> PyStr(42), comment |-> "text"]]
      : p \in [1..n -> ParentChoices(n)] }

Batches == UNION { BatchesOfLen(n) : n \in 0..MaxBatch }


\* ---------------------------------------------------------------- importer

\* Truthiness of a parent_id value (None and the empty string are falsy).
HasParent(youtube_parent_id) == youtube_parent_id # None /\ youtube_parent_id # ""

\* incast_parent_id = parent_map.get(youtube_parent_id, None) if youtube_parent_id else None
ResolveParent(pmap, youtube_parent_id) ==
  IF HasParent(youtube_parent_id) THEN Get(pmap, youtube_parent_id, NoId) ELSE NoId

\* The outbound payload of one record; the key parent_id exists only when the
\* resolved parent id is truthy.
BuildPayload(comment, pmap) ==
  LET incast_parent_id == ResolveParent(pmap, comment.parent_id)
      base == [comment |-> comment.comment,
               commented_at |-> PyFloat(comment.commented_at)]
  IN  IF Truthy(incast_parent_id)
        THEN ("parent_id" :> incast_parent_id) @@ base
        ELSE base

\* Id the remote assigns to record i of call c when it answers with an id.
RemoteId(c, i) == <<"srv", c, i>>
\* Variant: the synthetic id does not carry the position.
DryRunIdUnnumbered(i) == <<"dry-run", 0>>

\* fake_uuid = f"dry-run-{idx}"
DryRunId(i) == <<"dry-run", i>>

\* comment_response.get('id') of the body that outcome o carries.
ResponseId(o, c, i) == IF o = "ok" THEN RemoteId(c, i) ELSE NoId

\* Summary of a finished record (n publish attempts, none in dry-run).
Verdict(imported, n, outs) ==
  CASE imported /\ n <= 1 -> "first_ok"
    [] imported /\ n > 1 -> "retried_ok"
    [] ~imported /\ outs # {} /\ (\A o \in outs : Is4xx(o)) -> "rejected"
    [] ~imported /\ "noid" \in outs -> "no_id"
    [] OTHER -> "failed"

\* Variant: the sleep follows every record, the last one too.
RateLimitAlways(i) == rate_sleeps' = rate_sleeps + 1

\* if idx < total: time.sleep(rate_limit)
RateLimit(i) ==
  rate_sleeps' = IF i < Len(comments) THEN rate_sleeps + 1 ELSE rate_sleeps

\* Variant: the map lives on the instance and survives from call to call.
NewParentMapKept(old) == old

\* parent_map = {} at the start of every call (line 181).
NewParentMap(old) == EmptyMap

\* Variant: a per-record failure escapes the loop and ends the call early.
LoopFinishedOnFailure == idx = Len(comments) \/ failed_count > entry.failed

\* The for loop over enumerate(comments, 1) is exhausted (line 283).
LoopFinished == idx = Len(comments)

\* Entering import_comments: parent_map = {}, total = len(comments).
EnterImport(batch) ==
  /\ pc = "idle"
  /\ pc' = "loop"
  /\ comments' = batch
  /\ idx' = 0
  /\ parent_map' = NewParentMap(parent_map)
  /\ attempt' = 0
  /\ delay' = 0
  /\ call_no' = call_no + 1
  /\ payloads' = <<>>
  /\ imported_log' = <<>>
  /\ attempts' = 0
  /\ last' = "none"
  /\ seen' = {}
  /\ waits' = <<>>
  /\ verdicts' = <<>>
  /\ rate_sleeps' = 0
  /\ returned' = [imported |-> -1, failed |-> -1, total |-> -1]
  /\ UNCHANGED <<dry_run, max_retries>>

\* import_comments(comments, asset_id): the counters are those of the instance.
ImportComments(batch) ==
  /\ EnterImport(batch)
  /\ entry' = [imported |-> imported_count, failed |-> failed_count]
  /\ UNCHANGED <<imported_count, failed_count>>

\* import_live_chats(live_chats, asset_id): resets the counters, then the same
\* import logic.
ImportLiveChats(batch) ==
  /\ EnterImport(batch)
  /\ imported_count' = 0
  /\ failed_count' = 0
  /\ entry' = [imported |-> 0, failed |-> 0]

\* The record obtained a remote id: parent_map[yt_id] = id, imported_count += 1.
RecordImported(i, rid, n, outs) ==
  /\ parent_map' = (comments[i].yt_id :> rid) @@ parent_map
  /\ imported_log' = Append(imported_log, [idx |-> i, yt_id |-> comments[i].yt_id, id |-> rid])
  /\ imported_count' = imported_count + 1
  /\ verdicts' = Append(verdicts, Verdict(TRUE, n, outs))
  /\ RateLimit(i)
  /\ pc' = "loop"
  /\ UNCHANGED <<failed_count, attempt, delay>>

\* Variant: every failed attempt of the record is counted.
RecordFailedPerAttempt(i, n, outs) ==
  /\ failed_count' = failed_count + n
  /\ verdicts' = Append(verdicts, Verdict(FALSE, n, outs))
  /\ RateLimit(i)
  /\ pc' = "loop"
  /\ UNCHANGED <<parent_map, imported_log, imported_count, attempt, delay>>

\* No id in the response, or the publish raised: failed_count += 1.
RecordFailed(i, n, outs) ==
  /\ failed_count' = failed_count + 1
  /\ verdicts' = Append(verdicts, Verdict(FALSE, n, outs))
  /\ RateLimit(i)
  /\ pc' = "loop"
  /\ UNCHANGED <<parent_map, imported_log, imported_count, attempt, delay>>

\* Variant: the loop's try has only the first handler clause.
CaughtByLoopHTTPOnly == {"HTTPError"}

\* Exception classes the handlers of the loop's try catch (lines 356-372):
\* except HTTPError, except RequestException, except Exception.
CaughtByLoop == {"HTTPError", "RequestException", "ValueError", "KeyError"}

\* An exception leaves import_comments: the call ends without a result dict.
Raise ==
  /\ pc' = "raised"
  /\ UNCHANGED <<parent_map, imported_log, imported_count, failed_count,
                 verdicts, rate_sleeps, attempt, delay>>

\* An exception of class exc leaves _import_single_comment_with_500_handling
\* inside the loop's try (lines 337-372).
LoopCatch(i, exc, n, outs) ==
  IF exc \in CaughtByLoop THEN RecordFailed(i, n, outs) ELSE Raise

\* comment['comment'] can be evaluated (line 305).
HasText(comment) == "comment" \in DOMAIN comment

\* Variant: every 2xx answer counts as an import, with or without an id.
HandleResponseIgnoringId(i, o, n, outs) ==
  RecordImported(i, ResponseId(o, call_no, i), n, outs)

\* response_data -> comment id present or not (lines 344-354).
HandleResponse(i, o, n, outs) ==
  IF Truthy(ResponseId(o, call_no, i))
    THEN RecordImported(i, ResponseId(o, call_no, i), n, outs)
    ELSE RecordFailed(i, n, outs)

\* Variant: the wrapper's loop counts from -1, one pass more.
EnterWrapperOnePassMore ==
  /\ pc' = "wrapper"
  /\ attempt' = -1
  /\ delay' = InitialDelay
  /\ UNCHANGED <<parent_map, imported_log, imported_count, failed_count,
                 verdicts, rate_sleeps>>

\* _import_single_comment_non_500(payload): the wrapper starts with
\* delay = initial_delay and attempt 0; its first invocation follows at once.
EnterWrapper ==
  /\ pc' = "wrapper"
  /\ attempt' = 0
  /\ delay' = InitialDelay
  /\ UNCHANGED <<parent_map, imported_log, imported_count, failed_count,
                 verdicts, rate_sleeps>>

\* One loop iteration in dry-run mode (lines 283-335, 374-376).
ImportDryRun ==
  LET i == idx + 1 IN
  /\ pc = "loop"
  /\ ~LoopFinished
  /\ HasText(comments[i])
  /\ dry_run
  /\ idx' = i
  /\ payloads' = Append(payloads, [yt_id |-> comments[i].yt_id,
                                   payload |-> BuildPayload(comments[i], parent_map)])
  /\ attempts' = 0
  /\ last' = "none"
  /\ seen' = {}
  /\ waits' = <<>>
  /\ RecordImported(i, DryRunId(i), 0, {})
  /\ UNCHANGED <<dry_run, max_retries, comments, call_no, entry, returned>>

\* Start of a loop iteration with the first requests.post of
\* _import_single_comment_with_500_handling (lines 283-315, 221-231, 270-281).
FirstAttempt(o) ==
  LET i == idx + 1 IN
  /\ pc = "loop"
  /\ ~LoopFinished
  /\ HasText(comments[i])
  /\ ~dry_run
  /\ idx' = i
  /\ payloads' = Append(payloads, [yt_id |-> comments[i].yt_id,
                                   payload |-> BuildPayload(comments[i], parent_map)])
  /\ attempts' = 1
  /\ last' = o
  /\ seen' = {o}
  /\ IF o \in Accepting
       THEN /\ waits' = <<>>
            /\ HandleResponse(i, o, 1, {o})
       ELSE IF StatusOf(o) = 500
         THEN /\ waits' = <<Retry500Delay>>
              /\ pc' = "retry500"
              /\ UNCHANGED <<parent_map, imported_log, imported_count,
                             failed_count, verdicts, rate_sleeps, attempt, delay>>
         ELSE /\ waits' = <<>>
              /\ IF IsRequestException(Raises(o))
                   THEN EnterWrapper
                   ELSE LoopCatch(i, Raises(o), 1, {o})
  /\ UNCHANGED <<dry_run, max_retries, comments, call_no, entry, returned>>

\* The single retry after a 500 (lines 251-267, 273-281): a second 500 is
\* re-raised by the except HTTPError clause, another RequestException goes to
\* the retry wrapper, anything else leaves the function.
Retry500(o) ==
  /\ pc = "retry500"
  /\ attempts' = attempts + 1
  /\ last' = o
  /\ seen' = seen \cup {o}
  /\ IF o \in Accepting
       THEN HandleResponse(idx, o, attempts + 1, seen \cup {o})
       ELSE IF StatusOf(o) # 500 /\ IsRequestException(Raises(o))
         THEN EnterWrapper
         ELSE LoopCatch(idx, Raises(o), attempts + 1, seen \cup {o})
  /\ UNCHANGED <<dry_run, max_retries, comments, idx, call_no, entry,
                 payloads, waits, returned>>

\* Variant: the last attempt of the loop is followed by one more.
RetriesLeftInclusive(n, m) == n <= m

\* 'if attempt < max_retries' of the wrapper's for loop (retry.py line 40).
RetriesLeft(n, m) == n < m

\* One invocation of _make_request inside retry_with_backoff's wrapper
\* (retry.py lines 35-49), which catches exceptions=(RequestException,) only.
WrapperAttempt(o) ==
  /\ pc = "wrapper"
  /\ attempts' = attempts + 1
  /\ last' = o
  /\ seen' = seen \cup {o}
  /\ IF o \in Accepting
       THEN /\ HandleResponse(idx, o, attempts + 1, seen \cup {o})
            /\ waits' = waits
       ELSE IF IsRequestException(Raises(o)) /\ RetriesLeft(attempt, max_retries)
         THEN /\ waits' = Append(waits, delay)
              /\ delay' = Min(delay * ExponentialBase, MaxDelay)
              /\ attempt' = attempt + 1
              /\ pc' = "wrapper"
              /\ UNCHANGED <<parent_map, imported_log, imported_count,
                             failed_count, verdicts, rate_sleeps>>
         ELSE /\ waits' = waits
              /\ LoopCatch(idx, Raises(o), attempts + 1, seen \cup {o})
  /\ UNCHANGED <<dry_run, max_retries, comments, idx, call_no, entry,
                 payloads, returned>>

\* payload = {'comment': comment['comment'], ...} is evaluated before the
\* dry-run branch and outside the try (lines 304-312): a record without the
\* key raises KeyError out of import_comments.
BuildPayloadRaises ==
  LET i == idx + 1 IN
  /\ pc = "loop"
  /\ ~LoopFinished
  /\ ~HasText(comments[i])
  /\ idx' = i
  /\ Raise
  /\ UNCHANGED <<dry_run, max_retries, comments, call_no, entry, payloads,
                 attempts, last, seen, waits, returned>>

\* End of the loop: return {'imported', 'failed', 'total'}.
Return ==
  /\ pc = "loop"
  /\ LoopFinished
  /\ pc' = "idle"
  /\ returned' = [imported |-> imported_count, failed |-> failed_count,
                  total |-> Len(comments)]
  /\ UNCHANGED <<importer_vars, comments, idx, parent_map, attempt, delay,
                 call_no, entry, payloads, imported_log, attempts, last, seen,
                 waits, verdicts, rate_sleeps>>

\* ----------------------------------------------------------- UserRandomizer

\* Author names of the source: a name with digits, the empty string, and the
\* literal "Unknown".
AuthorNames == {"Fred23", "", "Unknown"}

\* random.randint(1, 999), cut down to 1..MaxRandom.
RandomNums == 1..MaxRandom

\* f"{base}_{random_num}"
Pseudonym(base, random_num) == base \o "_" \o ToString(random_num)

Bases == {"Fred", "User", "Unknown"}

\* The base get_randomized_name derives (lines 37-45): the letters of the
\* first whitespace-separated word when that word is longer than two
\* characters and has letters, else "User".  A pseudonym "Fred_2" is one word
\* whose letters are its own base.
BaseOf(original_name) ==
  IF \E b \in Bases, n \in RandomNums : original_name = Pseudonym(b, n)
    THEN CHOOSE b \in Bases : \E n \in RandomNums : original_name = Pseudonym(b, n)
    ELSE CASE original_name = "Fred23" -> "Fred"
           [] original_name = "Unknown" -> "Unknown"
           [] OTHER -> "User"

\* The avatar URL is a function of hash(original_name), fixed within a run.
AvatarUrl(original_name) == [seed |-> original_name]

\* str(uuid.uuid4()): the n-th UUID drawn in the run, different from all
\* others.
Uuid(n) == [uuid |-> n]

\* Result of a memoizing getter: the value returned and the map afterwards.
Memo(value, map) == [value |-> value, map |-> map]

\* Variant: a new name is drawn on every call and overwrites the stored one.
GetRandomizedNameFresh(map, original_name, random_num) ==
  LET randomized == Pseudonym(BaseOf(original_name), random_num)
  IN  Memo(randomized, [k \in (DOMAIN map) \cup {original_name} |->
                          IF k = original_name THEN randomized ELSE map[k]])

\* get_randomized_name(original_name) with random_num the number it would
\* draw (lines 21-53).
GetRandomizedName(map, original_name, random_num) ==
  IF original_name \in DOMAIN map
    THEN Memo(map[original_name], map)
    ELSE LET randomized == Pseudonym(BaseOf(original_name), random_num)
         IN  Memo(randomized, (original_name :> randomized) @@ map)

\* get_random_avatar(original_name) (lines 55-83).
GetRandomAvatar(map, original_name) ==
  IF original_name \in DOMAIN map
    THEN Memo(map[original_name], map)
    ELSE Memo(AvatarUrl(original_name),
              (original_name :> AvatarUrl(original_name)) @@ map)

\* Variant: a new UUID is drawn on every call and overwrites the stored one.
GetUserIdFresh(map, original_name, n) ==
  Memo(Uuid(n), [k \in (DOMAIN map) \cup {original_name} |->
                   IF k = original_name THEN Uuid(n) ELSE map[k]])

\* get_user_id(original_name) with n the number of the UUID it would draw
\* (lines 85-105).
GetUserId(map, original_name, n) ==
  IF original_name \in DOMAIN map
    THEN Memo(map[original_name], map)
    ELSE Memo(Uuid(n), (original_name :> Uuid(n)) @@ map)

\* 'user_name' in comment
HasUserName(comment) == "user_name" \in DOMAIN comment

\* original_name = comment.get('user_name', 'Unknown')
OriginalName(comment) ==
  IF HasUserName(comment) THEN comment.user_name ELSE "Unknown"

\* Variant: the record is rebuilt from the three author fields alone.
SetItemAlone(comment, key, value) ==
  [k \in ((DOMAIN comment) \cap {"user_name", "profile_picture",
                                 "created_by_id"}) \cup {key} |->
     IF k = key THEN value ELSE comment[k]]

\* comment[key] = value on a dict.
SetItem(comment, key, value) ==
  [k \in (DOMAIN comment) \cup {key} |-> IF k = key THEN value ELSE comment[k]]

\* The generator of the random module after one more random.randint.
Drawn(rng) == [rng EXCEPT !.draws = @ + 1]

\* The generator after random.seed(name_hash) ... random.seed() (lines 71 and
\* 78): seeded afresh from the operating system, whatever it was.
Reseeded(rng) == [reseeds |-> rng.reseeds + 1, draws |-> 0]

\* The generator after anonymize_comment: get_randomized_name draws when the
\* record has a user_name that is not in name_map, then get_random_avatar
\* reseeds when the name is not in avatar_map.
GeneratorAfter(rng, comment, original_name) ==
  LET named == IF HasUserName(comment) /\ original_name \notin DOMAIN name_map
                 THEN Drawn(rng) ELSE rng
  IN  IF original_name \in DOMAIN avatar_map THEN named ELSE Reseeded(named)

\* anonymize_comment(comment) (lines 107-128); the record is changed in place.
AnonymizeComment(k, random_num) ==
  LET comment == arecords[k]
      original_name == OriginalName(comment)
      name == GetRandomizedName(name_map, original_name, random_num)
      avatar == GetRandomAvatar(avatar_map, original_name)
      user_id == GetUserId(user_id_map, original_name, uuid_count + 1)
      named == IF HasUserName(comment)
                 THEN SetItem(comment, "user_name", name.value)
                 ELSE comment
  IN  /\ name_map' = IF HasUserName(comment) THEN name.map ELSE name_map
      /\ avatar_map' = avatar.map
      /\ user_id_map' = user_id.map
      /\ uuid_count' = IF user_id.map = user_id_map THEN uuid_count
                                                   ELSE uuid_count + 1
      /\ rng_state' = GeneratorAfter(rng_state, comment, original_name)
      /\ arecords' = [arecords EXCEPT ![k] =
                        SetItem(SetItem(named, "profile_picture", avatar.value),
                                "created_by_id", user_id.value)]

\* UserRandomizer.__init__ (lines 12-19).
InitRandomizer ==
  /\ name_map = EmptyMap
  /\ avatar_map = EmptyMap
  /\ user_id_map = EmptyMap
  /\ uuid_count = 0
  /\ rng_state = [reseeds |-> 0, draws |-> 0]

\* No list has been handed to anonymize_comments.
NoRecordList ==
  /\ arecords = <<>>
  /\ originals = <<>>
  /\ first_pass = <<>>
  /\ apos = 0
  /\ apass = "none"

\* ------------------------------------------------------------- credentials

\* No _token_expires_soon call is under observation.
NoExpiryCall ==
  /\ x_token = [serial |-> 0, kind |-> "garbage", exp |-> 0]
  /\ x_threshold = 0
  /\ x_clock = [s |-> 0, half |-> 0]
  /\ x_result = "none"

\* No _extract_timestamp call is under observation.
NoStampCall ==
  /\ st_text = <<>>
  /\ st_result = -1

\* No run of main or process_list is under observation.
NoRun ==
  /\ run_pc = "off"
  /\ run_entry = "none"
  /\ run_mode = [dry_run |-> FALSE, video_only |-> FALSE,
                  comments_only |-> FALSE, asset_id |-> FALSE]
  /\ videos = <<>>
  /\ results = <<>>
  /\ summary = [printed |-> FALSE, total |-> 0, successful |-> 0, failed |-> 0]
  /\ exit_status = -1

\* A bearer token: its serial tells tokens apart; kind says whether the
\* payload decodes and carries 'exp' ("garbage", "noexp", "exp").
Jwt(serial, kind, exp) == [serial |-> serial, kind |-> kind, exp |-> exp]

\* A refresh token; number 0 is None (or the empty string), the falsy value.
RefreshTok(n) == [rt |-> n]
NoRefreshToken == RefreshTok(0)

\* The backend answers the refreshToken mutation with tokens that outlive
\* the threshold by one second.
IssuedJwt == Jwt(issued + 1, "exp", now + ExpiryThreshold + 1)
IssuedRefreshTok == RefreshTok(issued + 2)

\* Variant: a token with exactly the threshold left counts as expiring.
TokenExpiresSoonInclusive(token, t, threshold_seconds) ==
  IF token.kind # "exp"
    THEN TRUE
    ELSE token.exp - t <= threshold_seconds

\* _token_expires_soon(token, threshold_seconds) for a token whose payload
\* cannot be decoded ("garbage"), has no 'exp' ("noexp") or has a numeric
\* 'exp' ("exp"), with current_timestamp = t
\* (comment_importer.py 57-67, asset_creator.py 51-67).
TokenExpiresSoon(token, t, threshold_seconds) ==
  IF token.kind # "exp"
    THEN TRUE
    ELSE token.exp - t < threshold_seconds

\* time.time() is a float; the clock counts half seconds.
\* current_timestamp = int(time.time()) drops the fraction (line 64).
CurrentTimestamp(clock) == clock.s

\* str() of a Python bool.
PyBool(b) == IF b THEN "True" ELSE "False"

\* One call of _token_expires_soon: what it returns, or the exception it
\* raises.  A payload whose 'exp' is not a number ("badexp", e.g. a string)
\* passes the test of line 60 and fails in the subtraction of line 65.
TokenExpiresSoonCall(token, clock, threshold_seconds) ==
  IF token.kind = "badexp"
    THEN "TypeError"
    ELSE PyBool(TokenExpiresSoon(token, CurrentTimestamp(clock), threshold_seconds))

\* What one POST of the refreshToken mutation comes back with: an exception,
\* a status other than 200, a body that is not JSON, a body with 'errors', a
\* body with an empty refreshToken result, or a result carrying (or not) a
\* token, a refreshToken and a JWT cookie.
RefreshFailures == {"exception", "status", "badjson", "errors", "nodata"}
RefreshResponses ==
  { [kind |-> k, token |-> FALSE, refreshToken |-> FALSE, cookie |-> FALSE] :
      k \in RefreshFailures }
  \cup
  { [kind |-> "result", token |-> t, refreshToken |-> r, cookie |-> c] :
      t \in BOOLEAN, r \in BOOLEAN, c \in BOOLEAN }

\* Outcome of one _refresh_token call: its return value, the tokens the
\* instance holds afterwards, and the number of POSTs it made.
RefreshResult(ok, jwt, rt, posts) ==
  [ok |-> ok, jwt |-> jwt, refresh |-> rt, posts |-> posts]

\* Variant: the dry-run guard is missing.
ImporterRefreshNoDryRunGuard(jwt, rt, url, dry, resp) ==
  IF url = None \/ rt = NoRefreshToken THEN RefreshResult(FALSE, jwt, rt, 0)
  ELSE IF resp.kind = "result" /\ resp.token
    THEN RefreshResult(TRUE, IssuedJwt,
                       IF resp.refreshToken THEN IssuedRefreshTok ELSE rt, 1)
    ELSE RefreshResult(FALSE, jwt, rt, 1)

\* Variant: a refresh that fails after its POST forgets the bearer token.
ImporterRefreshClearing(jwt, rt, url, dry, resp) ==
  IF url = None THEN RefreshResult(FALSE, jwt, rt, 0)
  ELSE IF rt = NoRefreshToken THEN RefreshResult(FALSE, jwt, rt, 0)
  ELSE IF dry THEN RefreshResult(TRUE, jwt, rt, 0)
  ELSE IF resp.kind = "result" /\ resp.token
    THEN RefreshResult(TRUE, IssuedJwt,
                       IF resp.refreshToken THEN IssuedRefreshTok ELSE rt, 1)
    ELSE RefreshResult(FALSE, Jwt(0, "garbage", 0), rt, 1)

\* CommentImporter._refresh_token (comment_importer.py 69-148).
ImporterRefresh(jwt, rt, url, dry, resp) ==
  IF url = None THEN RefreshResult(FALSE, jwt, rt, 0)
  ELSE IF rt = NoRefreshToken THEN RefreshResult(FALSE, jwt, rt, 0)
  ELSE IF dry THEN RefreshResult(TRUE, jwt, rt, 0)
  ELSE IF resp.kind # "result" THEN RefreshResult(FALSE, jwt, rt, 1)
  ELSE IF resp.token
    THEN RefreshResult(TRUE, IssuedJwt,
                       IF resp.refreshToken THEN IssuedRefreshTok ELSE rt, 1)
    ELSE RefreshResult(FALSE, jwt, rt, 1)

\* Variant: the refresh token of the response is stored before the bearer
\* token is looked at.
AssetRefreshEager(jwt, rt, dry, resp) ==
  IF dry THEN RefreshResult(TRUE, jwt, rt, 0)
  ELSE IF rt = NoRefreshToken THEN RefreshResult(FALSE, jwt, rt, 0)
  ELSE IF resp.kind # "result" THEN RefreshResult(FALSE, jwt, rt, 1)
  ELSE LET new_rt == IF resp.refreshToken THEN IssuedRefreshTok ELSE rt IN
       IF resp.token \/ resp.cookie
         THEN RefreshResult(TRUE, IssuedJwt, new_rt, 1)
         ELSE RefreshResult(FALSE, jwt, new_rt, 1)

\* AssetCreator._refresh_token (asset_creator.py 69-156): dry-run is tested
\* first, and a JWT cookie stands in for a token missing from the body.
AssetRefresh(jwt, rt, dry, resp) ==
  IF dry THEN RefreshResult(TRUE, jwt, rt, 0)
  ELSE IF rt = NoRefreshToken THEN RefreshResult(FALSE, jwt, rt, 0)
  ELSE IF resp.kind # "result" THEN RefreshResult(FALSE, jwt, rt, 1)
  ELSE IF resp.token \/ resp.cookie
    THEN RefreshResult(TRUE, IssuedJwt,
                       IF resp.refreshToken THEN IssuedRefreshTok ELSE rt, 1)
    ELSE RefreshResult(FALSE, jwt, rt, 1)

\* Stands for the response of a call that made no POST.
NoResponse ==
  [kind |-> "none", token |-> FALSE, refreshToken |-> FALSE, cookie |-> FALSE]

\* No _refresh_token call has been observed yet.
NoRefresh ==
  [who |-> "none", ok |-> FALSE, posts |-> 0, resp |-> NoResponse,
   jwt_before |-> Jwt(0, "garbage", 0), refresh_before |-> NoRefreshToken]

\* Bookkeeping of one _refresh_token call with outcome r.
ObserveRefresh(who, r, resp, jwt, rt) ==
  /\ refresh_posts' = refresh_posts + r.posts
  /\ issued' = IF r.ok /\ r.posts > 0 THEN issued + 2 ELSE issued
  /\ last_refresh' = [who |-> who, ok |-> r.ok, posts |-> r.posts,
                      resp |-> IF r.posts > 0 THEN resp ELSE NoResponse,
                      jwt_before |-> jwt, refresh_before |-> rt]

\* One look at the token's expiry before record `at` (0: before the loop) at
\* instant now: whether _refresh_token was called, what it returned, and the
\* bearer token before and after.
Check(at, refreshed, ok, before, after) ==
  [at |-> at, time |-> now, refreshed |-> refreshed, ok |-> ok,
   before |-> before, after |-> after]

\* self._refresh_token() of the importer, whatever it returns: both callers
\* go on with the tokens the instance then holds (lines 154-155, 288).
ImporterRefreshCall(at, log) ==
  \E resp \in RefreshResponses :
    LET r == ImporterRefresh(jwt_token, refresh_token, backend_url, dry_run, resp) IN
    /\ jwt_token' = r.jwt
    /\ refresh_token' = r.refresh
    /\ ObserveRefresh("importer", r, resp, jwt_token, refresh_token)
    /\ checks' = Append(log, Check(at, TRUE, r.ok, jwt_token, r.jwt))

\* The token was looked at and found good for longer than the threshold.
NoImporterRefresh(at, log) ==
  /\ UNCHANGED <<jwt_token, refresh_token, issued, refresh_posts, last_refresh>>
  /\ checks' = Append(log, Check(at, FALSE, FALSE, jwt_token, jwt_token))

\* Variant: the periodic check comes one record late.
CheckDueLate(i, last_check) == i - last_check > TokenCheckInterval

\* if idx - last_token_check >= TOKEN_CHECK_INTERVAL (line 285).
CheckDue(i, last_check) == i - last_check >= TokenCheckInterval

\* _ensure_valid_token() at the start of import_comments (lines 150-155, 178)
\* and last_token_check = 0 (line 189).
EnsureValidToken ==
  /\ IF TokenExpiresSoon(jwt_token, now, ExpiryThreshold)
       THEN ImporterRefreshCall(0, <<>>)
       ELSE NoImporterRefresh(0, <<>>)
  /\ last_token_check' = 0
  /\ sent' = <<>>
  /\ UNCHANGED <<backend_url, now, ac_jwt_token, ac_refresh_token, ac_calls>>

\* The periodic check at the head of loop iteration i (lines 285-289).
PeriodicCheck(i) ==
  /\ IF CheckDue(i, last_token_check)
       THEN /\ IF TokenExpiresSoon(jwt_token, now, ExpiryThreshold)
                 THEN ImporterRefreshCall(i, checks)
                 ELSE NoImporterRefresh(i, checks)
            /\ last_token_check' = i
       ELSE UNCHANGED <<jwt_token, refresh_token, issued, refresh_posts,
                        last_refresh, checks, last_token_check>>
  /\ UNCHANGED <<backend_url, now, ac_jwt_token, ac_refresh_token, ac_calls>>

\* Variant: the closures post the token the call started with.
PostCookieAtEntry(current) == checks'[1].after

\* cookies={'JWT': self.jwt_token}: every requests.post reads the attribute
\* when it is made (lines 199, 225, 255).
PostCookie(current) == current

\* One more requests.post goes out for record i; a check in the same loop
\* iteration comes first.
Post(i) == sent' = Append(sent, [idx |-> i, jwt |-> PostCookie(jwt_token')])

\* A step of the call between two credential checks.
NoCheck ==
  UNCHANGED <<jwt_token, refresh_token, backend_url, last_token_check, now,
              ac_jwt_token, ac_refresh_token, ac_calls, issued, refresh_posts,
              last_refresh, checks>>

\* AssetCreator._ensure_valid_token (asset_creator.py 158-163), called by
\* get_signed_url before the upload of a video.
AssetEnsureValidToken ==
  /\ pc = "idle"
  /\ ac_calls < MaxAssetCalls
  /\ ac_calls' = ac_calls + 1
  /\ IF TokenExpiresSoon(ac_jwt_token, now, ExpiryThreshold)
       THEN \E resp \in RefreshResponses :
              LET r == AssetRefresh(ac_jwt_token, ac_refresh_token, dry_run, resp) IN
              /\ ac_jwt_token' = r.jwt
              /\ ac_refresh_token' = r.refresh
              /\ ObserveRefresh("asset", r, resp, ac_jwt_token, ac_refresh_token)
       ELSE UNCHANGED <<ac_jwt_token, ac_refresh_token, issued, refresh_posts,
                        last_refresh>>
  /\ UNCHANGED <<jwt_token, refresh_token, backend_url, last_token_check, now,
                 checks, sent>>
  /\ UNCHANGED <<importer_vars, frame_vars, ghost_vars, video_vars, anon_vars,
                 aux_vars>>

\* The next step reads time.time(): a component's _ensure_valid_token, or the
\* periodic check of the coming loop iteration.
ClockRead ==
  \/ pc = "idle"
  \/ pc = "loop" /\ ~LoopFinished /\ CheckDue(idx + 1, last_token_check)

\* time.time() moves on; the clock is advanced where it is about to be read.
Tick ==
  /\ now < MaxTime
  /\ ClockRead
  /\ now' = now + 1
  /\ UNCHANGED <<jwt_token, refresh_token, backend_url, last_token_check,
                 ac_jwt_token, ac_refresh_token, ac_calls, issued,
                 refresh_posts, last_refresh, checks, sent>>
  /\ UNCHANGED <<importer_vars, frame_vars, ghost_vars, video_vars, anon_vars,
                 aux_vars>>

\* Credentials as ingest.py hands them to both components (lines 136-163);
\* nothing has been refreshed yet.
InitCredentials(jwt, rt, url) ==
  /\ jwt_token = jwt
  /\ refresh_token = rt
  /\ backend_url = url
  /\ ac_jwt_token = jwt
  /\ ac_refresh_token = rt
  /\ last_token_check = 0
  /\ now = 0
  /\ ac_calls = 0
  /\ issued = 0
  /\ refresh_posts = 0
  /\ last_refresh = NoRefresh
  /\ checks = <<>>
  /\ sent = <<>>

BackendUrl == "https://backend/graphql/"

\* A token that does not expire within the threshold while the clock runs.
LongLivedJwt == Jwt(0, "exp", ExpiryThreshold + MaxTime)

\* ------------------------------------------------------------------- Spec

\* CommentImporter.__init__ with max_retries = m.
NewImporter(m) ==
  /\ dry_run \in BOOLEAN
  /\ max_retries = m
  /\ imported_count = 0
  /\ failed_count = 0
  /\ pc = "idle"
  /\ comments = <<>>
  /\ idx = 0
  /\ parent_map = EmptyMap
  /\ attempt = 0
  /\ delay = 0
  /\ call_no = 0
  /\ entry = [imported |-> 0, failed |-> 0]
  /\ payloads = <<>>
  /\ imported_log = <<>>
  /\ attempts = 0
  /\ last = "none"
  /\ seen = {}
  /\ waits = <<>>
  /\ verdicts = <<>>
  /\ rate_sleeps = 0
  /\ returned = [imported |-> -1, failed |-> -1, total |-> -1]

InitImporter == NewImporter(DefaultMaxRetries)

Init ==
  /\ InitImporter
  /\ InitCredentials(LongLivedJwt, RefreshTok(1), BackendUrl)
  /\ InitRandomizer
  /\ NoRecordList
  /\ NoExpiryCall
  /\ NoRun
  /\ NoStampCall
  /\ vpc = "off"
  /\ comment_entries = <<>>
  /\ extracted = <<>>
  /\ max_items_limit = 0
  /\ comments_imported = -1

CallImportComments ==
  /\ vpc = "off"
  /\ call_no < MaxCalls
  /\ \E batch \in Batches : ImportComments(batch)
  /\ UNCHANGED <<video_vars, side_vars>>

CallImportLiveChats ==
  /\ vpc = "off"
  /\ call_no < MaxCalls
  /\ \E batch \in Batches : ImportLiveChats(batch)
  /\ UNCHANGED <<video_vars, side_vars>>

DryRunStep == ImportDryRun /\ UNCHANGED <<video_vars, side_vars>>
FirstStep == \E o \in Outcomes : FirstAttempt(o) /\ UNCHANGED <<video_vars, side_vars>>
Retry500Step == \E o \in Outcomes : Retry500(o) /\ UNCHANGED <<video_vars, side_vars>>
WrapperStep == \E o \in Outcomes : WrapperAttempt(o) /\ UNCHANGED <<video_vars, side_vars>>
ReturnStep == Return /\ UNCHANGED <<video_vars, side_vars>>

Next ==
  \/ CallImportComments
  \/ CallImportLiveChats
  \/ DryRunStep
  \/ FirstStep
  \/ Retry500Step
  \/ WrapperStep
  \/ ReturnStep

Spec == Init /\ [][Next]_vars


\* ------------------------------------------------- YouTubeProcessor (comments)

\* Comment texts of the source, with what the timestamp patterns find in them.
Texts == {"nice video", "at 0:42 wow", "0:07"}

\* _extract_timestamp(text): seconds of the first matching pattern, else 0.
ExtractTimestamp(text) ==
  CASE text = "at 0:42 wow" -> 0 * 60 + 42
    [] text = "0:07" -> 0 * 60 + 7
    [] OTHER -> 0

\* _remove_timestamp_from_text(text), whitespace collapsed and trimmed.
RemoveTimestampFromText(text) ==
  CASE text = "at 0:42 wow" -> "wow"
    [] text = "0:07" -> ""
    [] OTHER -> text

RawParentChoices(n) == {Root, OrphanId} \cup {Ids[j] : j \in 1..n}

\* Flat comment lists as yt-dlp yields them: entry i has id Ids[i], a parent
\* field ("root" or an id) and a text.
RawListsOfLen(n) ==
  { [i \in 1..n |-> [id |-> Ids[i], parent |-> f[i][1], text |-> f[i][2]]]
      : f \in [1..n -> RawParentChoices(n) \X Texts] }

RawLists == UNION { RawListsOfLen(n) : n \in 0..MaxLen }

IsRootEntry(raw) == raw.parent = Root
IsReplyEntry(raw) == raw.parent # Root

\* mapped_comment of one raw entry (lines 345-366 and 372-394).
MapComment(raw) ==
  LET commented_at == ExtractTimestamp(raw.text)
      comment_text == IF commented_at > 0
                        THEN RemoveTimestampFromText(raw.text)
                        ELSE raw.text
  IN  [comment |-> comment_text,
       commented_at |-> PyStr(commented_at),
       yt_id |-> raw.id,
       parent_id |-> IF raw.parent = Root THEN None ELSE raw.parent]

MapAll(entries) == [i \in 1..Len(entries) |-> MapComment(entries[i])]

\* _process_flat_comments: the top-level entries first, then the replies, each
\* group in source order.
ProcessFlatComments(entries) ==
  MapAll(SelectSeq(entries, IsRootEntry)) \o MapAll(SelectSeq(entries, IsReplyEntry))

\* ------------------------------------------------- BatchProcessor.process_video

\* Variant: the comparison admits an offset of 0.
HasTimestampOrZero(comment) == PyInt(comment.commented_at) >= 0

\* int(comment.get('commented_at', '0') or '0') > 0
HasTimestamp(comment) == PyInt(comment.commented_at) > 0

\* comments_with_timestamp = [c for c in comments if ... > 0]
FilterTimestamps(cs) == SelectSeq(cs, HasTimestamp)

\* comments_with_timestamp[:max_items_limit] when a limit is set and exceeded
\* (a limit of 0 stands for None: both are falsy).
ApplyLimit(cs, limit) ==
  IF limit # 0 /\ limit > 0 /\ Len(cs) > limit THEN SubSeq(cs, 1, limit) ELSE cs

Limits == 0..(MaxLen - 1)

\* comments, timestamp_stats = youtube_processor.extract_comments(video_url)
ExtractComments ==
  /\ vpc = "start"
  /\ vpc' = "extracted"
  /\ extracted' = ProcessFlatComments(comment_entries)
  /\ UNCHANGED <<side_vars, importer_vars, frame_vars, ghost_vars, comment_entries,
                 max_items_limit, comments_imported>>

\* Filter, limit and hand the batch to import_comments (lines 215-250).
SubmitComments ==
  LET comments_with_timestamp == FilterTimestamps(extracted) IN
  /\ vpc = "extracted"
  /\ Len(comments_with_timestamp) > 0
  /\ ImportComments(ApplyLimit(comments_with_timestamp, max_items_limit))
  /\ vpc' = "importing"
  /\ UNCHANGED <<comment_entries, extracted, max_items_limit, comments_imported>>
  /\ UNCHANGED side_vars

\* No comment with a timestamp: result['comments_imported'] = 0 (lines 253-255).
SkipComments ==
  /\ vpc = "extracted"
  /\ Len(FilterTimestamps(extracted)) = 0
  /\ vpc' = "done"
  /\ comments_imported' = 0
  /\ UNCHANGED <<side_vars, importer_vars, frame_vars, ghost_vars, comment_entries,
                 extracted, max_items_limit>>

\* result['comments_imported'] = comment_stats['imported'] (line 251).
FinishVideo ==
  /\ vpc = "importing"
  /\ pc = "idle"
  /\ vpc' = "done"
  /\ comments_imported' = returned.imported
  /\ UNCHANGED <<side_vars, importer_vars, frame_vars, ghost_vars, comment_entries,
                 extracted, max_items_limit>>

InitPipeline ==
  /\ InitImporter
  /\ InitCredentials(LongLivedJwt, RefreshTok(1), BackendUrl)
  /\ InitRandomizer
  /\ NoRecordList
  /\ NoExpiryCall
  /\ NoRun
  /\ NoStampCall
  /\ vpc = "start"
  /\ comment_entries \in RawLists
  /\ extracted = <<>>
  /\ max_items_limit \in Limits
  /\ comments_imported = -1

PublishStep == \E o \in Accepting : FirstAttempt(o) /\ UNCHANGED <<video_vars, side_vars>>

NextPipeline ==
  \/ ExtractComments
  \/ SubmitComments
  \/ SkipComments
  \/ DryRunStep
  \/ PublishStep
  \/ ReturnStep
  \/ FinishVideo

SpecPipeline == InitPipeline /\ [][NextPipeline]_vars


\* ------------------------------------------------------------- SpecData
\* One import_comments call over record lists in which any record may lack
\* the 'comment' key, against a remote whose 2xx bodies may be unparseable.

\* The record without its 'comment' key.
DropText(rec) == [k \in (DOMAIN rec) \ {"comment"} |-> rec[k]]

DataBatches ==
  { [i \in 1..Len(b) |-> IF i \in D THEN DropText(b[i]) ELSE b[i]] :
      b \in Batches, D \in SUBSET (1..MaxBatch) }

DataOutcomes == {"ok", "e404", "e500"} \cup Unparseable

CallImportData ==
  /\ vpc = "off"
  /\ call_no < DataCalls
  /\ \E batch \in DataBatches : ImportComments(batch)
  /\ UNCHANGED <<video_vars, side_vars>>

DataFirstStep == \E o \in DataOutcomes : FirstAttempt(o) /\ UNCHANGED <<video_vars, side_vars>>
DataRetry500Step == \E o \in DataOutcomes : Retry500(o) /\ UNCHANGED <<video_vars, side_vars>>
DataWrapperStep == \E o \in DataOutcomes : WrapperAttempt(o) /\ UNCHANGED <<video_vars, side_vars>>
KeyErrorStep == BuildPayloadRaises /\ UNCHANGED <<video_vars, side_vars>>

NextData ==
  \/ CallImportData
  \/ DryRunStep
  \/ DataFirstStep
  \/ DataRetry500Step
  \/ DataWrapperStep
  \/ KeyErrorStep
  \/ ReturnStep

SpecData == Init /\ [][NextData]_vars

\* ------------------------------------------------------------- SpecRetry
\* The same call with an importer built with any max_retries from 0 up to
\* the default: retry_with_backoff(max_retries = m) around _make_request.

RetrySettings == 0..DefaultMaxRetries

InitRetry ==
  /\ \E m \in RetrySettings : NewImporter(m)
  /\ InitCredentials(LongLivedJwt, RefreshTok(1), BackendUrl)
  /\ InitRandomizer
  /\ NoRecordList
  /\ NoExpiryCall
  /\ NoRun
  /\ NoStampCall
  /\ vpc = "off"
  /\ comment_entries = <<>>
  /\ extracted = <<>>
  /\ max_items_limit = 0
  /\ comments_imported = -1

SpecRetry == InitRetry /\ [][NextData]_vars

\* The steps import_comments takes by itself once it was called: every
\* requests.post returns or raises within its timeout and every sleep ends.
ImportProgress ==
  \/ DryRunStep
  \/ DataFirstStep
  \/ DataRetry500Step
  \/ DataWrapperStep
  \/ KeyErrorStep
  \/ ReturnStep

SpecRetryFair == SpecRetry /\ WF_vars(ImportProgress)


\* ------------------------------------------------------------ SpecToken
\* One importer and one asset creator built from the same credentials, any
\* initial token, a clock, and record lists long enough to reach the periodic
\* credential check; the remote accepts every publish.

\* n top-level records; yt_id as the importer's own default f"yt_{idx}".
UniformBatch(n) ==
  [i \in 1..n |-> [yt_id |-> "yt_" \o ToString(i), parent_id |-> None,
                   commented_at |-> PyStr(42), comment |-> "text"]]

TokenLens ==
  {0, 1} \cup { k * TokenCheckInterval + d : k \in 1..MaxChecks, d \in {0, 1} }
TokenBatches == { UniformBatch(n) : n \in TokenLens }

InitialJwts ==
  { Jwt(0, "garbage", 0), Jwt(0, "noexp", 0),
    Jwt(0, "exp", ExpiryThreshold - 1), Jwt(0, "exp", ExpiryThreshold + 1),
    LongLivedJwt }

InitToken ==
  /\ InitImporter
  /\ \E jwt \in InitialJwts, rt \in {NoRefreshToken, RefreshTok(1)},
        url \in {None, BackendUrl} : InitCredentials(jwt, rt, url)
  /\ InitRandomizer
  /\ NoRecordList
  /\ NoExpiryCall
  /\ NoRun
  /\ NoStampCall
  /\ vpc = "off"
  /\ comment_entries = <<>>
  /\ extracted = <<>>
  /\ max_items_limit = 0
  /\ comments_imported = -1

TokenCallImportComments ==
  /\ call_no < TokenCalls
  /\ \E batch \in TokenBatches : ImportComments(batch)
  /\ EnsureValidToken
  /\ UNCHANGED <<video_vars, anon_vars,
                 aux_vars>>

TokenCallImportLiveChats ==
  /\ call_no < TokenCalls
  /\ \E batch \in TokenBatches : ImportLiveChats(batch)
  /\ EnsureValidToken
  /\ UNCHANGED <<video_vars, anon_vars,
                 aux_vars>>

TokenDryRunStep ==
  /\ ImportDryRun
  /\ PeriodicCheck(idx + 1)
  /\ sent' = sent
  /\ UNCHANGED <<video_vars, anon_vars,
                 aux_vars>>

\* The remote accepts every publish except those of the records at a
\* periodic check, which it may answer with a 404 or a 500; a repeated
\* publish is accepted or fails the way the publish before it did.
FaultyPositions == { k * TokenCheckInterval : k \in 1..MaxChecks }
TokenOutcomes(i) ==
  IF i \in FaultyPositions THEN {"ok", "e404", "e500"} ELSE {"ok"}

TokenPublishStep ==
  /\ \E o \in TokenOutcomes(idx + 1) : FirstAttempt(o)
  /\ PeriodicCheck(idx + 1)
  /\ Post(idx + 1)
  /\ UNCHANGED <<video_vars, anon_vars,
                 aux_vars>>

TokenRetry500Step ==
  /\ \E o \in {"ok", last} : Retry500(o)
  /\ NoCheck
  /\ Post(idx)
  /\ UNCHANGED <<video_vars, anon_vars,
                 aux_vars>>

TokenWrapperStep ==
  /\ \E o \in {"ok", last} : WrapperAttempt(o)
  /\ NoCheck
  /\ Post(idx)
  /\ UNCHANGED <<video_vars, anon_vars,
                 aux_vars>>

AssetStep == AssetEnsureValidToken

NextToken ==
  \/ Tick
  \/ AssetStep
  \/ TokenCallImportComments
  \/ TokenCallImportLiveChats
  \/ TokenDryRunStep
  \/ TokenPublishStep
  \/ TokenRetry500Step
  \/ TokenWrapperStep
  \/ ReturnStep

SpecToken == InitToken /\ [][NextToken]_vars


\* ---------------------------------------------------------------- SpecRun
\* One run: main (ingest.py) from the point where authentication has
\* succeeded, or BatchProcessor.process_list called with the parameters it
\* declares.  A video is described by what its steps meet; it has comments
\* with timestamps and no live chat.

\* What the steps of process_video meet for one video: extract_video_info
\* and the import call return or raise an Exception, get_signed_url returns
\* with or without 'error', the upload reports success or not, or finds the
\* downloaded file missing.
VideoScenarios ==
  [info : {"ok", "raise"}, signed : {"ok", "error"}, upload : {"ok", "fail", "missing"},
   import : {"ok", "raise"}]

\* A loaded list: the video on line k has url k.
VideoLists ==
  UNION { { [k \in 1..n |-> [url |-> k, meets |-> f[k]]] :
              f \in [1..n -> VideoScenarios] } : n \in 0..MaxVideos }

\* modes.dry_run, modes.video_only, modes.comments_only and whether
\* modes.asset_id is set.
Modes ==
  [dry_run : BOOLEAN, video_only : BOOLEAN, comments_only : BOOLEAN,
   asset_id : BOOLEAN]

\* The result dict of process_video, with the number of import calls made.
VideoResult(url, success, error, import_calls) ==
  [url |-> url, success |-> success, error |-> error,
   import_calls |-> import_calls]

\* Variant: an exception inside process_video leaves the result as success.
ProcessVideoLenient(v, m) ==
  IF ~m.comments_only /\ m.video_only THEN VideoResult(v.url, TRUE, "none", 0)
  ELSE VideoResult(v.url, TRUE, "none", 1)

\* AssetCreator.get_signed_url: in dry-run a made-up URL and asset id are
\* returned without a request (asset_creator 226-233); otherwise the answer
\* of the backend, any exception turned into an 'error' entry (252-283).
GetSignedUrl(v, m) == IF m.dry_run THEN "ok" ELSE v.meets.signed

\* Variant: the upload reports success whatever happened.
UploadFileToSignedUrlBlind(v, m) == "ok"

\* AssetCreator.upload_file_to_signed_url: a missing file fails in every
\* mode (302-306), dry-run succeeds without a request (312-317), otherwise
\* the outcome of the PUT (319-341).
UploadFileToSignedUrl(v, m) ==
  IF v.meets.upload = "missing" THEN "fail"
  ELSE IF m.dry_run THEN "ok"
  ELSE v.meets.upload

\* BatchProcessor.process_video (lines 59-274): every Exception is caught
\* and turned into success = False (260-264).
ProcessVideo(v, m) ==
  IF v.meets.info = "raise" THEN VideoResult(v.url, FALSE, "exception", 0)
  ELSE IF m.comments_only /\ ~m.asset_id /\ ~m.dry_run
    THEN VideoResult(v.url, FALSE, "no_asset_id", 0)
  ELSE IF ~m.comments_only /\ GetSignedUrl(v, m) = "error"
    THEN VideoResult(v.url, FALSE, "signed_url", 0)
  ELSE IF ~m.comments_only /\ UploadFileToSignedUrl(v, m) = "fail"
    THEN VideoResult(v.url, FALSE, "upload", 0)
  ELSE IF ~m.comments_only /\ m.video_only
    THEN VideoResult(v.url, TRUE, "none", 0)
  ELSE IF v.meets.import = "raise"
    THEN VideoResult(v.url, FALSE, "exception", 1)
  ELSE VideoResult(v.url, TRUE, "none", 1)

\* sum(1 for r in results if r['success'])
Successful(rs) == Cardinality({ k \in 1..Len(rs) : rs[k].success })

\* _print_summary(results) (lines 321-355).
PrintSummary(rs) ==
  [printed |-> TRUE, total |-> Len(rs), successful |-> Successful(rs),
   failed |-> Len(rs) - Successful(rs)]

\* Keyword parameters process_list declares (line 276) and the keywords
\* main passes (ingest.py 175-183).
ProcessListAccepts ==
  {"list_file", "dry_run", "video_only", "comments_only", "max_items_limit",
   "asset_id"}
MainPasses ==
  {"list_file", "dry_run", "video_only", "comments_only", "max_items_limit",
   "asset_id", "skip_live_chat"}

\* The except clauses around main's try block (ingest.py 197-202).
MainHandler(exc) == IF exc = "KeyboardInterrupt" THEN 130 ELSE 1

\* main after process_list has returned (ingest.py 185-195); a process that
\* falls off the end of main exits with status 0.
MainTail(rs, m) ==
  IF m.dry_run THEN 0
  ELSE IF Successful(rs) > 0
    THEN IF Successful(rs) < Len(rs) THEN 1 ELSE 0
    ELSE 1

\* main has authenticated and built the components (ingest.py 128-172).
\* Without an asset id, comments_only is accepted in dry-run only (52-58).
StartMain ==
  /\ run_pc = "off"
  /\ run_pc' = "main_try"
  /\ run_entry' = "main"
  /\ run_mode' \in { m \in Modes : m.comments_only /\ ~m.asset_id => m.dry_run }
  /\ videos' \in VideoLists
  /\ UNCHANGED <<results, summary, exit_status>>
  /\ UNCHANGED <<importer_vars, frame_vars, ghost_vars, video_vars, cred_vars,
                 anon_vars, expiry_vars, stamp_vars>>

\* batch_processor.process_list(list_file, dry_run=..., ...,
\* skip_live_chat=skip_live_chat) (ingest.py 175-183): a keyword the method
\* does not declare raises TypeError before its body runs, and the
\* 'except Exception' clause ends the process.
MainCallProcessList ==
  /\ run_pc = "main_try"
  /\ IF MainPasses \subseteq ProcessListAccepts
       THEN /\ run_pc' = "video"
            /\ exit_status' = exit_status
       ELSE /\ run_pc' = "exited"
            /\ exit_status' = MainHandler("TypeError")
  /\ UNCHANGED <<run_entry, run_mode, videos, results, summary>>
  /\ UNCHANGED <<importer_vars, frame_vars, ghost_vars, video_vars, cred_vars,
                 anon_vars, expiry_vars, stamp_vars>>

\* process_list called with parameters it declares; load_list_file has
\* returned the videos (lines 291-294).
StartProcessList ==
  /\ run_pc = "off"
  /\ run_pc' = "video"
  /\ run_entry' = "process_list"
  /\ run_mode' \in Modes
  /\ videos' \in VideoLists
  /\ UNCHANGED <<results, summary, exit_status>>
  /\ UNCHANGED <<importer_vars, frame_vars, ghost_vars, video_vars, cred_vars,
                 anon_vars, expiry_vars, stamp_vars>>

\* One pass of the loop of process_list (lines 296-314).
ProcessNextVideo ==
  /\ run_pc = "video"
  /\ Len(results) < Len(videos)
  /\ results' = Append(results, ProcessVideo(videos[Len(results) + 1], run_mode))
  /\ UNCHANGED <<run_pc, run_entry, run_mode, videos, summary, exit_status>>
  /\ UNCHANGED <<importer_vars, frame_vars, ghost_vars, video_vars, cred_vars,
                 anon_vars, expiry_vars, stamp_vars>>

\* KeyboardInterrupt while a video is being processed: it is no Exception,
\* so process_video's handler lets it pass (260), process_list has no
\* handler and its frame, with the local list results, is unwound; results
\* stays here as the record of what had been completed.
Interrupt ==
  /\ run_pc = "video"
  /\ Len(results) < Len(videos)
  /\ IF run_entry = "main"
       THEN /\ run_pc' = "exited"
            /\ exit_status' = MainHandler("KeyboardInterrupt")
       ELSE /\ run_pc' = "interrupted"
            /\ exit_status' = exit_status
  /\ UNCHANGED <<run_entry, run_mode, videos, results, summary>>
  /\ UNCHANGED <<importer_vars, frame_vars, ghost_vars, video_vars, cred_vars,
                 anon_vars, expiry_vars, stamp_vars>>

\* End of the loop: _print_summary(results), return results (316-319); in
\* main the tail of the try block follows.
FinishList ==
  /\ run_pc = "video"
  /\ Len(results) = Len(videos)
  /\ summary' = PrintSummary(results)
  /\ IF run_entry = "main"
       THEN /\ run_pc' = "exited"
            /\ exit_status' = MainTail(results, run_mode)
       ELSE /\ run_pc' = "returned"
            /\ exit_status' = exit_status
  /\ UNCHANGED <<run_entry, run_mode, videos, results>>
  /\ UNCHANGED <<importer_vars, frame_vars, ghost_vars, video_vars, cred_vars,
                 anon_vars, expiry_vars, stamp_vars>>

NextRun ==
  \/ StartMain
  \/ MainCallProcessList
  \/ StartProcessList
  \/ ProcessNextVideo
  \/ Interrupt
  \/ FinishList

SpecRun == Init /\ [][NextRun]_vars


\* -------------------------------------------------------------- SpecStamp

\* A comment text is a sequence of characters.  Ch(text, i) is its i-th
\* character, or "" past either end.
Ch(text, i) == IF i \in 1..Len(text) THEN text[i] ELSE ""

\* \d, for the ASCII digits.
IsDigit(c) == c \in {"0", "1", "2", "3", "4", "5", "6", "7", "8", "9"}

\* \s, for the blank.
IsSpace(c) == c = " "

\* re.IGNORECASE: letters are compared in lower case.
Lower(c) ==
  CASE c = "A" -> "a"
    [] c = "T" -> "t"
    [] c = "I" -> "i"
    [] c = "S" -> "s"
    [] c = "W" -> "w"
    [] OTHER -> c

\* The literal word w (lower case) stands at position i, in any case.
WordAt(text, i, w) == \A k \in 1..Len(w) : Lower(Ch(text, i + k - 1)) = w[k]

DigitValue(c) ==
  CASE c = "0" -> 0 [] c = "1" -> 1 [] c = "2" -> 2 [] c = "3" -> 3
    [] c = "4" -> 4 [] c = "5" -> 5 [] c = "6" -> 6 [] c = "7" -> 7
    [] c = "8" -> 8 [] c = "9" -> 9

\* int(group) of a captured run of digits.
RECURSIVE GroupInt(_)
GroupInt(g) ==
  IF g = <<>> THEN 0
  ELSE 10 * GroupInt(SubSeq(g, 1, Len(g) - 1)) + DigitValue(g[Len(g)])

\* A match object: groups() and the position after the match.  A group that
\* took no part in the match (None) is the empty sequence.
NoMatch == [found |-> FALSE, groups |-> <<>>, stop |-> 0]

\* (\d{1,2}):(\d{2})(?::(\d{2}))? tried at position j.  \d{1,2} is greedy;
\* when two digits stand at j the one-digit alternative cannot continue with
\* ':'.  third: the optional group is taken (the greedy first choice) or
\* skipped (what backtracking falls back to).
TimeToken(text, j, third) ==
  LET n == IF IsDigit(Ch(text, j)) /\ IsDigit(Ch(text, j + 1)) THEN 2 ELSE 1
      c == j + n
      two == /\ IsDigit(Ch(text, j))
             /\ Ch(text, c) = ":"
             /\ IsDigit(Ch(text, c + 1)) /\ IsDigit(Ch(text, c + 2))
      three == /\ Ch(text, c + 3) = ":"
               /\ IsDigit(Ch(text, c + 4)) /\ IsDigit(Ch(text, c + 5))
  IN  IF ~two \/ (third /\ ~three) THEN NoMatch
      ELSE IF third
        THEN [found |-> TRUE,
              groups |-> <<SubSeq(text, j, c - 1), SubSeq(text, c + 1, c + 2),
                           SubSeq(text, c + 4, c + 5)>>,
              stop |-> c + 6]
        ELSE [found |-> TRUE,
              groups |-> <<SubSeq(text, j, c - 1), SubSeq(text, c + 1, c + 2),
                           <<>> >>,
              stop |-> c + 3]

\* The first alternative that lets the rest of the pattern match: with the
\* third group, else without it.
FirstOf(with3, without3) == IF with3.found THEN with3 ELSE without3

\* \s* from position j: the position of the first non-blank.
RECURSIVE SkipSpaces(_, _)
SkipSpaces(text, j) ==
  IF IsSpace(Ch(text, j)) THEN SkipSpaces(text, j + 1) ELSE j

\* What must follow the time token in pattern p, from position k.
Follows(p, text, k) ==
  CASE p = 2 -> /\ IsSpace(Ch(text, k))
                /\ LET w == SkipSpaces(text, k)
                   IN  \/ WordAt(text, w, <<"i", "s">>)
                       \/ WordAt(text, w, <<"w", "a", "s">>)
                       \/ WordAt(text, w, <<"a", "t">>)
    [] p = 3 -> k = Len(text) + 1
    [] OTHER -> TRUE

\* Where the time token of pattern p starts for a match tried at i, or 0.
\*   1  (?:at|@)\s*TIME     2  TIME\s+(?:is|was|at)     3  ^TIME$     4  TIME
TokenStart(p, text, i) ==
  CASE p = 1 -> IF WordAt(text, i, <<"a", "t">>) THEN SkipSpaces(text, i + 2)
                ELSE IF Ch(text, i) = "@" THEN SkipSpaces(text, i + 1)
                ELSE 0
    [] p = 3 -> IF i = 1 THEN 1 ELSE 0
    [] OTHER -> i

\* pattern p matched at position i.
MatchAt(p, text, i) ==
  LET j == TokenStart(p, text, i)
      Try(third) ==
        LET m == TimeToken(text, j, third)
        IN  IF m.found /\ Follows(p, text, m.stop) THEN m ELSE NoMatch
  IN  IF j = 0 THEN NoMatch ELSE FirstOf(Try(TRUE), Try(FALSE))

\* re.search(pattern, text, re.IGNORECASE): the leftmost match.
Search(p, text) ==
  LET at == {i \in 1..Len(text) : MatchAt(p, text, i).found}
  IN  IF at = {} THEN NoMatch
      ELSE MatchAt(p, text, CHOOSE i \in at : \A k \in at : i <= k)

\* The order the patterns list is tried in.
PatternOrderAnyFirst == <<4, 1, 2, 3>>
PatternOrder == <<1, 2, 3, 4>>

\* groups -> seconds: three captured groups are h:m:s, otherwise m:s.
ToSeconds(groups) ==
  IF Len(groups) = 3 /\ groups[3] # <<>>
    THEN GroupInt(groups[1]) * 3600 + GroupInt(groups[2]) * 60 + GroupInt(groups[3])
    ELSE GroupInt(groups[1]) * 60 + GroupInt(groups[2])

\* _extract_timestamp(text): the first pattern that matches decides; 0 when
\* none does.
RECURSIVE ExtractFrom(_, _)
ExtractFrom(text, n) ==
  IF n > Len(PatternOrder) THEN 0
  ELSE LET match == Search(PatternOrder[n], text)
       IN  IF match.found THEN ToSeconds(match.groups)
           ELSE ExtractFrom(text, n + 1)

ExtractTimestampOfChars(text) == ExtractFrom(text, 1)

\* The phrase "at 12:34".
Phrase == <<"a", "t", " ", "1", "2", ":", "3", "4">>

\* What comment texts are put together from.
Pieces ==
  { Phrase, <<" ">>, <<":", "5", "6">>, <<"1", ":", "0", "5">>, <<"a", "t">>,
    <<"@">>, <<"i", "s">>, <<"7">>, <<"A", "T">>, <<"x">> }

RECURSIVE Concat(_)
Concat(ps) == IF ps = <<>> THEN <<>> ELSE Head(ps) \o Concat(Tail(ps))

StampTexts ==
  { Concat(ps) : ps \in UNION { [1..n -> Pieces] : n \in 0..MaxPieces } }

InitStamp ==
  /\ InitImporter
  /\ InitCredentials(LongLivedJwt, RefreshTok(1), BackendUrl)
  /\ InitRandomizer
  /\ NoRecordList
  /\ NoExpiryCall
  /\ NoRun
  /\ vpc = "off"
  /\ comment_entries = <<>>
  /\ extracted = <<>>
  /\ max_items_limit = 0
  /\ comments_imported = -1
  /\ st_text \in StampTexts
  /\ st_result = -1

CallExtractTimestamp ==
  /\ st_result = -1
  /\ st_result' = ExtractTimestampOfChars(st_text)
  /\ UNCHANGED st_text
  /\ UNCHANGED <<importer_vars, frame_vars, ghost_vars, video_vars, cred_vars,
                 anon_vars, expiry_vars, run_vars>>

NextStamp == CallExtractTimestamp

SpecStamp == InitStamp /\ [][NextStamp]_vars

\* ------------------------------------------------------------ SpecExpiry
\* _token_expires_soon as a function of the token, the threshold and the
\* clock.

Thresholds == {ExpiryThreshold, 0}

\* Tokens of every kind; the numeric expiries lie around the thresholds.
ExpiryTokens ==
  { Jwt(0, k, 0) : k \in {"garbage", "noexp", "badexp"} }
  \cup { Jwt(0, "exp", t + d) : t \in Thresholds, d \in -1..(MaxTime + 1) }

InitExpiry ==
  /\ InitImporter
  /\ InitCredentials(LongLivedJwt, RefreshTok(1), BackendUrl)
  /\ InitRandomizer
  /\ NoRecordList
  /\ NoRun
  /\ NoStampCall
  /\ vpc = "off"
  /\ comment_entries = <<>>
  /\ extracted = <<>>
  /\ max_items_limit = 0
  /\ comments_imported = -1
  /\ x_token \in ExpiryTokens
  /\ x_threshold \in Thresholds
  /\ x_clock = [s |-> 0, half |-> 0]
  /\ x_result = "none"

\* Half a second passes; an answer given earlier is no longer looked at.
ClockAdvance ==
  /\ x_clock.s < MaxTime
  /\ x_clock' = IF x_clock.half = 0
                  THEN [s |-> x_clock.s, half |-> 1]
                  ELSE [s |-> x_clock.s + 1, half |-> 0]
  /\ x_result' = "none"
  /\ UNCHANGED <<x_token, x_threshold>>
  /\ UNCHANGED <<importer_vars, frame_vars, ghost_vars, video_vars, cred_vars,
                 anon_vars, run_vars, stamp_vars>>

CallTokenExpiresSoon ==
  /\ x_result' = TokenExpiresSoonCall(x_token, x_clock, x_threshold)
  /\ UNCHANGED <<x_token, x_threshold, x_clock>>
  /\ UNCHANGED <<importer_vars, frame_vars, ghost_vars, video_vars, cred_vars,
                 anon_vars, run_vars, stamp_vars>>

NextExpiry ==
  \/ ClockAdvance
  \/ CallTokenExpiresSoon

SpecExpiry == InitExpiry /\ [][NextExpiry]_vars


\* ------------------------------------------------------------- SpecAnon
\* One UserRandomizer.  anonymize_comments runs over a flat record list (the
\* records YouTubeProcessor builds carry no 'replies' key), one record per
\* step; afterwards it runs once more, either over the same list objects as
\* the first pass left them or over a second copy of the list as extracted.

\* Flat record lists of length n; a record may lack 'user_name'.
AuthorChoices == AuthorNames \cup {None}
AnonListsOfLen(n) ==
  { [i \in 1..n |->
       IF f[i] = None
         THEN [yt_id |-> Ids[i], profile_picture |-> "thumb",
               comment |-> "text", commented_at |-> PyStr(i),
               parent_id |-> IF i = 1 THEN "" ELSE Ids[1]]
         ELSE [yt_id |-> Ids[i], profile_picture |-> "thumb",
               comment |-> "text", commented_at |-> PyStr(i),
               parent_id |-> IF i = 1 THEN "" ELSE Ids[1],
               user_name |-> f[i]]]
      : f \in [1..n -> AuthorChoices] }
AnonLists == UNION { AnonListsOfLen(n) : n \in 0..MaxAnon }

\* anonymize_comments(comments) is entered with a list just extracted.
StartFirstPass ==
  /\ apass = "none"
  /\ \E comments_in \in AnonLists :
       /\ arecords' = comments_in
       /\ originals' = comments_in
  /\ apass' = "first"
  /\ apos' = 0
  /\ UNCHANGED <<name_map, avatar_map, user_id_map, uuid_count, rng_state,
                 first_pass>>
  /\ UNCHANGED <<importer_vars, frame_vars, ghost_vars, video_vars, cred_vars,
                 aux_vars>>

\* One iteration of the for loop of anonymize_comments (lines 140-141).
AnonymizeNext ==
  /\ apass # "none"
  /\ apos < Len(arecords)
  /\ \E random_num \in RandomNums : AnonymizeComment(apos + 1, random_num)
  /\ apos' = apos + 1
  /\ UNCHANGED <<apass, originals, first_pass>>
  /\ UNCHANGED <<importer_vars, frame_vars, ghost_vars, video_vars, cred_vars,
                 aux_vars>>

\* anonymize_comments is called again with the list the first pass returned.
StartRerun ==
  /\ apass = "first"
  /\ apos = Len(arecords)
  /\ apass' = "rerun"
  /\ apos' = 0
  /\ first_pass' = arecords
  /\ UNCHANGED <<name_map, avatar_map, user_id_map, uuid_count, rng_state,
                 arecords,
                 originals>>
  /\ UNCHANGED <<importer_vars, frame_vars, ghost_vars, video_vars, cred_vars,
                 aux_vars>>

\* anonymize_comments is called with a second copy of the extracted list.
StartCopyPass ==
  /\ apass = "first"
  /\ apos = Len(arecords)
  /\ apass' = "copy"
  /\ apos' = 0
  /\ first_pass' = arecords
  /\ arecords' = originals
  /\ UNCHANGED <<name_map, avatar_map, user_id_map, uuid_count, rng_state,
                 originals>>
  /\ UNCHANGED <<importer_vars, frame_vars, ghost_vars, video_vars, cred_vars,
                 aux_vars>>

NextAnon ==
  \/ StartFirstPass
  \/ AnonymizeNext
  \/ StartRerun
  \/ StartCopyPass

SpecAnon == Init /\ [][NextAnon]_vars


\* ================================================================== claims

Failures == {"rejected", "no_id", "failed"}
Successes == {"first_ok", "retried_ok"}

\* The call has returned its result dict.
Returned == pc = "idle" /\ call_no > 0

\* Positions of the running call whose payload has been built.
Built == 1..Len(payloads)

\* Log entries of records that obtained a remote id before record k of this
\* call and carry the yt_id that record k names as its parent.
EarlierImports(k) ==
  { e \in 1..Len(imported_log) :
      /\ imported_log[e].idx < k
      /\ imported_log[e].yt_id = comments[k].parent_id }

\* C1: the payload of a record carries parent_id exactly when the record has a
\* non-null parent and a record with that yt_id obtained a remote id earlier in
\* the same call, and then parent_id is that remote id; nothing is resolved
\* from an earlier call.
C1_ParentResolvedInCall ==
  \A k \in Built :
    LET p == payloads[k].payload IN
    /\ ("parent_id" \in DOMAIN p) <=>
         (comments[k].parent_id # None /\ EarlierImports(k) # {})
    /\ ("parent_id" \in DOMAIN p) =>
         \E e \in EarlierImports(k) : p.parent_id = imported_log[e].id

\* C1 witness: in a second call on a live importer a reply is sent with the
\* remote id its parent obtained in that call.
C1_Witness ==
  /\ ~dry_run
  /\ call_no = 2
  /\ \E k \in Built :
       /\ "parent_id" \in DOMAIN payloads[k].payload
       /\ payloads[k].payload.parent_id = RemoteId(2, 1)

\* Positions of the batch holding the record that record k names as parent.
ParentPositions(k) ==
  { j \in 1..Len(comments) : comments[j].yt_id = comments[k].parent_id }

\* C3: once the call has returned, every record of the batch was transmitted,
\* and a reply whose parent failed to import, is absent from the batch, or is
\* the reply itself was sent without parent_id.
C3_RepliesAlwaysAttempted ==
  (Returned /\ ~dry_run) =>
    /\ Len(payloads) = Len(comments)
    /\ Len(verdicts) = Len(comments)
    /\ \A k \in 1..Len(comments) :
         /\ payloads[k].yt_id = comments[k].yt_id
         /\ ( /\ comments[k].parent_id # None
              /\ \/ ParentPositions(k) = {}
                 \/ ParentPositions(k) = {k}
                 \/ \E j \in ParentPositions(k) : verdicts[j] \in Failures )
            => "parent_id" \notin DOMAIN payloads[k].payload

\* C3 witness: a returned call in which the parent of a reply failed and the
\* reply, sent after it without parent_id, was imported.
C3_Witness ==
  /\ Returned
  /\ ~dry_run
  /\ Len(comments) = 2
  /\ comments[2].parent_id = comments[1].yt_id
  /\ verdicts[1] \in Failures
  /\ verdicts[2] \in Successes
  /\ "parent_id" \notin DOMAIN payloads[2].payload

\* Exactly record k met a 4xx on every attempt and every other record was
\* imported.
OnlyRejected(k) ==
  /\ k \in 1..Len(verdicts)
  /\ verdicts[k] = "rejected"
  /\ \A j \in 1..Len(verdicts) : j # k => verdicts[j] \in Successes

FreshImporter == entry.imported = 0 /\ entry.failed = 0

\* C7: on a fresh importer, when record k is answered 4xx on every attempt
\* and all other records are imported, every record of the batch is still
\* transmitted and the call returns failed = 1 and imported = N - 1.
C7_RejectedRecordIsolated ==
  \A k \in 1..Len(comments) :
    (Returned /\ ~dry_run /\ FreshImporter /\ OnlyRejected(k)) =>
      /\ Len(verdicts) = Len(comments)
      /\ Len(payloads) = Len(comments)
      /\ returned.failed = 1
      /\ returned.imported = Len(comments) - 1
      /\ returned.total = Len(comments)

\* C7 witness: the first of two records was rejected with 4xx on every
\* attempt, the second was transmitted and imported, and the call returned.
C7_Witness ==
  /\ Returned
  /\ ~dry_run
  /\ FreshImporter
  /\ Len(comments) = 2
  /\ OnlyRejected(1)
  /\ verdicts[2] = "first_ok"
  /\ returned.failed = 1


\* Every publish attempt made so far for the current record was answered 4xx.
Only4xxSoFar == seen # {} /\ \A o \in seen : Is4xx(o)

\* Every publish attempt made so far for the current record failed with a
\* transient transport error (connection error, timeout or 5xx).
OnlyTransientSoFar == seen # {} /\ \A o \in seen : IsTransient(o)

\* C8: a record answered with a 4xx is transmitted exactly once and no backoff
\* sleep is made for it.
C8_NoRetryAfter4xx ==
  (~dry_run /\ Only4xxSoFar) => (attempts = 1 /\ waits = <<>>)

\* C9: with max_retries = 3, a record whose every attempt fails with a
\* transient transport error gets at most 3 retries, 4 publish attempts in all.
C9_AtMostMaxRetries ==
  (~dry_run /\ max_retries = 3 /\ OnlyTransientSoFar) =>
    attempts <= max_retries + 1

\* C10: after transient failures every retry of a record is preceded by a
\* wait, and the n-th wait is min(2^(n-1), 60) seconds: 1s, 2s, 4s, ...
C10_BackoffSequence ==
  (~dry_run /\ OnlyTransientSoFar) =>
    /\ Len(waits) >= attempts - 1
    /\ \A n \in 1..Len(waits) : waits[n] = Min(2 ^ (n - 1), MaxDelay)

\* ------------------------------------------------------ per-video pipeline

\* The batch has been handed to import_comments.
Handed == vpc \in {"importing", "done"} /\ call_no > 0

\* Position of a record in the source list.
SourcePos(yt) == CHOOSE i \in 1..Len(comment_entries) : comment_entries[i].id = yt

Offset(i) == ExtractTimestamp(comment_entries[i].text)

\* C2: whenever a reply and the record it names as parent are both in the
\* transmitted batch, the parent's first publish attempt precedes the reply's.
C2_ParentBeforeReply ==
  (Handed /\ ~dry_run) =>
    \A j \in Built :
      \A i \in ParentPositions(j) :
        i # j => (i < j /\ i \in Built /\ payloads[i].yt_id = comments[j].parent_id)

\* Timestamped replies of source entry p.
TimedReplies(p) ==
  { r \in 1..Len(comment_entries) :
      comment_entries[r].parent = comment_entries[p].id /\ Offset(r) > 0 }

MinOffset(S) == CHOOSE m \in {Offset(r) : r \in S} : \A r \in S : m <= Offset(r)

InBatch(yt) == \E k \in 1..Len(comments) : comments[k].yt_id = yt

\* Two top-level comments, one timed and one untimed, and a 42s reply to the
\* untimed one.
E2EScenario ==
  << [id |-> "c1", parent |-> Root, text |-> "0:07"],
     [id |-> "c2", parent |-> Root, text |-> "nice video"],
     [id |-> "c3", parent |-> "c2", text |-> "at 0:42 wow"] >>

\* C4: an untimed parent with a timestamped reply is handed to the importer
\* together with the reply, carrying the minimum offset of its timestamped
\* replies; the end-to-end scenario reports imported = 3, failed = 0, total = 3
\* in dry-run.
C4_UntimedParentPromoted ==
  /\ (Handed /\ max_items_limit = 0) =>
       \A p \in 1..Len(comment_entries) :
         (Offset(p) = 0 /\ TimedReplies(p) # {}) =>
           /\ \A r \in TimedReplies(p) : InBatch(comment_entries[r].id)
           /\ \E k \in 1..Len(comments) :
                /\ comments[k].yt_id = comment_entries[p].id
                /\ PyInt(comments[k].commented_at) = MinOffset(TimedReplies(p))
  /\ (vpc = "done" /\ dry_run /\ max_items_limit = 0
        /\ comment_entries = E2EScenario) =>
       returned = [imported |-> 3, failed |-> 0, total |-> 3]

\* C5: the records transmitted for a video follow the original relative order
\* of the source list.
C5_SourceOrderKept ==
  (Handed /\ ~dry_run) =>
    \A a \in Built : \A b \in Built :
      a < b => SourcePos(payloads[a].yt_id) < SourcePos(payloads[b].yt_id)

\* C6: every record handed to import_comments has a derived offset > 0; no
\* comment with offset 0 is transmitted.
C6_OnlyTimestampedHanded ==
  Handed =>
    \A k \in 1..Len(comments) :
      /\ Offset(SourcePos(comments[k].yt_id)) > 0
      /\ PyInt(comments[k].commented_at) = Offset(SourcePos(comments[k].yt_id))
      /\ k \in Built =>
           payloads[k].payload.commented_at =
             PyFloat(PyStr(Offset(SourcePos(comments[k].yt_id))))

\* C6 witness: a comment without timestamp was extracted and left out, and a
\* timestamped one has been transmitted.
C6_Witness ==
  /\ Handed
  /\ ~dry_run
  /\ Len(payloads) >= 1
  /\ \E i \in 1..Len(extracted) : ~HasTimestamp(extracted[i])
  /\ Len(comments) < Len(extracted)

\* ------------------------------------------------------- failure isolation

\* Records of the running call counted as failures so far.
FailedRecords == { k \in 1..Len(verdicts) : verdicts[k] \in Failures }

\* The call has ended by an exception instead of a result dict.
Raised == pc = "raised"

\* C11: for record lists whose records carry the required fields and for
\* every pattern of transport outcomes, the call never ends by an exception;
\* once the loop is exhausted it returns imported, failed and total, every
\* record has been dealt with, and every record that failed is counted once.
C11_AlwaysReturns ==
  /\ ~Raised
  /\ Returned =>
       /\ DOMAIN returned = {"imported", "failed", "total"}
       /\ returned.total = Len(comments)
       /\ Len(verdicts) = Len(comments)
       /\ returned.failed = entry.failed + Cardinality(FailedRecords)

\* C11 witness: a live call over two records returned although every attempt
\* of both records failed, the last one with a connection error.
C11_Witness ==
  /\ Returned
  /\ ~dry_run
  /\ Len(comments) = 2
  /\ FailedRecords = {1, 2}
  /\ last = "conn"
  /\ returned.imported = entry.imported
  /\ returned.failed = entry.failed + 2

\* C12: a record without the 'comment' field, or one whose last answer was a
\* 2xx with an unparseable body, is counted as one failure; the call does not
\* end by an exception, the records after it are dealt with, and the result
\* dict is returned.
C12_DataErrorIsolated ==
  /\ ~Raised
  /\ (pc = "loop" /\ idx > 0 /\ last \in Unparseable) =>
       (idx \in FailedRecords /\ failed_count = entry.failed + Cardinality(FailedRecords))
  /\ Returned =>
       /\ Len(verdicts) = Len(comments)
       /\ \A k \in 1..Len(comments) :
            ~HasText(comments[k]) => k \in FailedRecords
       /\ returned.failed = entry.failed + Cardinality(FailedRecords)

\* C13: the result dict of every call of import_comments or import_live_chats
\* satisfies imported + failed = total, total being the number of records of
\* that call, whatever calls were made on the instance before.
C13_CountsPerCall ==
  Returned =>
    /\ returned.total = Len(comments)
    /\ returned.imported + returned.failed = returned.total

\* Positions of the running call that have been dealt with and whose publish
\* was answered 2xx without a remote id.
AnsweredWithoutId == { k \in 1..Len(verdicts) : verdicts[k] = "no_id" }

\* C14: a record whose publish is answered 2xx without a remote id is counted
\* in failed_count and not in imported_count, gets no parent_map entry, so
\* later replies to it are sent without parent_id, and the call does not
\* end by an exception.
C14_NoIdCountsAsFailure ==
  ~dry_run =>
    /\ ~Raised
    /\ (pc = "loop" /\ idx > 0 /\ last = "noid") => idx \in AnsweredWithoutId
    /\ AnsweredWithoutId \subseteq FailedRecords
    /\ failed_count = entry.failed + Cardinality(FailedRecords)
    /\ imported_count = entry.imported + Len(verdicts) - Cardinality(FailedRecords)
    /\ \A j \in AnsweredWithoutId :
         /\ comments[j].yt_id \notin DOMAIN parent_map
         /\ \A k \in Built :
              (k > j /\ comments[k].parent_id = comments[j].yt_id) =>
                "parent_id" \notin DOMAIN payloads[k].payload

\* C14 witness: the first record was answered 2xx without an id, its reply
\* was then sent without parent_id and imported, and the call returned one
\* failure and one import.
C14_Witness ==
  /\ Returned
  /\ ~dry_run
  /\ FreshImporter
  /\ Len(comments) = 2
  /\ comments[2].parent_id = comments[1].yt_id
  /\ verdicts = <<"no_id", "first_ok">>
  /\ DOMAIN payloads[2].payload = {"comment", "commented_at"}
  /\ returned = [imported |-> 1, failed |-> 1, total |-> 2]

\* ------------------------------------------------------------- credentials

\* C15: in dry-run mode no publish call and no credential-refresh call goes
\* out, for any record list and any token; a refresh simulated for an
\* expiring token leaves the tokens as they were, and failed_count is never
\* incremented.
C15_DryRunNoNetwork ==
  dry_run =>
    /\ attempts = 0
    /\ seen = {}
    /\ refresh_posts = 0
    /\ failed_count = 0
    /\ FailedRecords = {}
    /\ last_refresh.who = "importer" =>
         /\ last_refresh.posts = 0
         /\ jwt_token = last_refresh.jwt_before
         /\ refresh_token = last_refresh.refresh_before

\* C15 witness: a dry-run call over a list as long as the check interval has
\* returned; the token was expiring, the refresh was simulated at the
\* periodic check, and every record was counted as imported.
C15_Witness ==
  /\ dry_run
  /\ Returned
  /\ Len(comments) = TokenCheckInterval
  /\ last_token_check = TokenCheckInterval
  /\ TokenExpiresSoon(jwt_token, now, ExpiryThreshold)
  /\ last_refresh.who = "importer"
  /\ last_refresh.ok
  /\ returned = [imported |-> TokenCheckInterval, failed |-> 0,
                 total |-> TokenCheckInterval]

\* ------------------------------------------------------------------ dry-run

\* Positions before k holding the record that record k names as parent.
EarlierParents(k) ==
  { j \in 1..(k - 1) : comments[j].yt_id = comments[k].parent_id }

\* C16: in dry-run mode parent_map holds the synthetic id dry-run-<position>
\* for every record dealt with; a reply that follows its parent is sent with
\* the parent's synthetic id as parent_id, and a reply whose parent is not
\* earlier in the batch is sent without parent_id.
C16_DryRunSyntheticIds ==
  dry_run =>
    /\ DOMAIN parent_map = { comments[k].yt_id : k \in 1..idx }
    /\ \A k \in 1..idx : parent_map[comments[k].yt_id] = <<"dry-run", k>>
    /\ \A k \in Built :
         IF EarlierParents(k) # {}
           THEN /\ "parent_id" \in DOMAIN payloads[k].payload
                /\ \E j \in EarlierParents(k) :
                     payloads[k].payload.parent_id = <<"dry-run", j>>
           ELSE "parent_id" \notin DOMAIN payloads[k].payload

\* C16 witness: a dry-run call over two records that name each other as
\* parent: the first is sent without parent_id, the second with the synthetic
\* id of the first.
C16_Witness ==
  /\ dry_run
  /\ Returned
  /\ Len(comments) = 2
  /\ comments[1].parent_id = comments[2].yt_id
  /\ comments[2].parent_id = comments[1].yt_id
  /\ "parent_id" \notin DOMAIN payloads[1].payload
  /\ payloads[2].payload.parent_id = <<"dry-run", 1>>
  /\ returned.imported = entry.imported + 2

\* ------------------------------------------------------- credential refresh

\* The tokens held by the component that made the last _refresh_token call.
TokensOf(who) ==
  IF who = "asset" THEN <<ac_jwt_token, ac_refresh_token>>
                   ELSE <<jwt_token, refresh_token>>

\* The last _refresh_token call met one of the failure reasons: backend URL
\* unset, no refresh token, network exception, status other than 200, body
\* that is not JSON, GraphQL errors, empty data, or a response in which no
\* bearer token is found.
RefreshFailureReason ==
  LET f == last_refresh IN
  \/ f.who = "importer" /\ backend_url = None
  \/ f.refresh_before = NoRefreshToken
  \/ /\ f.posts > 0
     /\ \/ f.resp.kind \in RefreshFailures
        \/ ~f.resp.token /\ ~(f.who = "asset" /\ f.resp.cookie)

\* C20: a _refresh_token call that meets a failure reason returns False
\* and leaves jwt_token and refresh_token of its component as they were; it
\* makes no POST when the refresh token is missing and never more than one
\* POST.
C20_FailedRefreshKeepsTokens ==
  last_refresh.who # "none" =>
    /\ last_refresh.posts <= 1
    /\ last_refresh.refresh_before = NoRefreshToken => last_refresh.posts = 0
    /\ (~dry_run /\ RefreshFailureReason) => ~last_refresh.ok
    /\ ~last_refresh.ok =>
         TokensOf(last_refresh.who) =
           <<last_refresh.jwt_before, last_refresh.refresh_before>>

\* C20 witness: at the periodic check of a live call the importer's refresh
\* got a response with a new refresh token but no bearer token; it returned
\* False, both tokens are the old ones, and the loop goes on.
C20_Witness ==
  /\ ~dry_run
  /\ pc = "loop"
  /\ idx = TokenCheckInterval
  /\ last_refresh.who = "importer"
  /\ ~last_refresh.ok
  /\ last_refresh.posts = 1
  /\ last_refresh.resp.kind = "result"
  /\ last_refresh.resp.refreshToken
  /\ jwt_token = last_refresh.jwt_before
  /\ refresh_token = last_refresh.refresh_before
  /\ refresh_token # NoRefreshToken

\* --------------------------------------------------------------- anonymizer

\* Positions of the list the first pass has anonymized.
FirstPassDone ==
  CASE apass = "none" -> {}
    [] apass = "first" -> 1..apos
    [] OTHER -> 1..Len(originals)

\* Record k as the first pass left it.
FirstResult(k) == IF apass = "first" THEN arecords[k] ELSE first_pass[k]

\* The three author fields of a record (user_name may be absent).
AuthorFields(r) ==
  [user_name |-> IF HasUserName(r) THEN r.user_name ELSE None,
   profile_picture |-> r.profile_picture,
   created_by_id |-> r.created_by_id]

\* C17: within one UserRandomizer every record of original author A gets
\* the same display name, avatar and pseudo-id, whatever other names are
\* anonymized in between, and the entries of A in name_map, avatar_map and
\* user_id_map keep the values first returned for A through every later
\* operation.
C17_MemoStable ==
  /\ \A k \in FirstPassDone :
       LET A == OriginalName(originals[k])
           r == FirstResult(k)
       IN  /\ A \in DOMAIN avatar_map /\ avatar_map[A] = r.profile_picture
           /\ A \in DOMAIN user_id_map /\ user_id_map[A] = r.created_by_id
           /\ HasUserName(originals[k]) =>
                (A \in DOMAIN name_map /\ name_map[A] = r.user_name)
  /\ \A j \in FirstPassDone : \A k \in FirstPassDone :
       OriginalName(originals[j]) = OriginalName(originals[k]) =>
         /\ FirstResult(j).profile_picture = FirstResult(k).profile_picture
         /\ FirstResult(j).created_by_id = FirstResult(k).created_by_id
         /\ (HasUserName(originals[j]) /\ HasUserName(originals[k])) =>
              FirstResult(j).user_name = FirstResult(k).user_name

\* C17 witness: "Fred23", then "Unknown", then "Fred23" again have been
\* anonymized; both records of "Fred23" carry the same three values and the
\* record of "Unknown" a different pseudo-id.
C17_Witness ==
  /\ apass = "first"
  /\ apos = 3
  /\ OriginalName(originals[1]) = "Fred23"
  /\ OriginalName(originals[2]) = "Unknown"
  /\ OriginalName(originals[3]) = "Fred23"
  /\ AuthorFields(arecords[1]) = AuthorFields(arecords[3])
  /\ arecords[2].created_by_id # arecords[1].created_by_id
  /\ user_id_map["Fred23"] = arecords[1].created_by_id

\* C18 as stated: after anonymize_comments has run a second time over the
\* list the first pass returned, every record's user_name, profile_picture
\* and created_by_id equal their values after the first pass.
C18_RerunKeepsFields ==
  apass = "rerun" =>
    \A k \in 1..apos : AuthorFields(arecords[k]) = AuthorFields(first_pass[k])

\* C18 amended: when anonymize_comments runs, with the same UserRandomizer,
\* over a second copy of the list as it was extracted, every record gets the
\* user_name, profile_picture and created_by_id the first pass gave it.
C18_CopyPassKeepsFields ==
  apass = "copy" =>
    \A k \in 1..apos : AuthorFields(arecords[k]) = AuthorFields(first_pass[k])

\* C18 witness: the second pass over a copy of a two-record list with named
\* authors is complete and returned the fields of the first pass.
C18_Witness ==
  /\ apass = "copy"
  /\ Len(arecords) = 2
  /\ apos = 2
  /\ HasUserName(originals[1])
  /\ HasUserName(originals[2])
  /\ originals[1].user_name # originals[2].user_name
  /\ arecords[1].user_name = first_pass[1].user_name
  /\ arecords[1].user_name # originals[1].user_name
  /\ arecords[2].created_by_id = first_pass[2].created_by_id

\* The record has no author name, an empty one, or the literal "Unknown".
UnknownLike(comment) ==
  ~HasUserName(comment) \/ comment.user_name \in {"", "Unknown"}

\* C19: records without user_name, with an empty user_name and with the
\* user_name "Unknown" all get the same display name, avatar and pseudo-id,
\* and each has a user_name after anonymization.
C19_MissingNameIsUnknown ==
  apass = "first" =>
    \A j \in 1..apos : \A k \in 1..apos :
      (UnknownLike(originals[j]) /\ UnknownLike(originals[k])) =>
        /\ HasUserName(arecords[k])
        /\ AuthorFields(arecords[j]) = AuthorFields(arecords[k])

\* ------------------------------------------------- credential checks in a call

Max(S) == CHOOSE k \in S : \A j \in S : j <= k

\* The credential check whose outcome record i is published under: the last
\* one made before or at the head of record i's loop iteration.
GoverningCheck(i) ==
  checks[Max({ k \in 1..Len(checks) : checks[k].at <= i })]

\* Checks of the running call at which _refresh_token was called and
\* returned False.
FailedChecks ==
  { k \in 1..Len(checks) : checks[k].refreshed /\ ~checks[k].ok }

\* Records of the running call for which at least one requests.post went out.
Transmitted == { sent[k].idx : k \in 1..Len(sent) }

\* C21: a refresh that fails at the start of an import call or at a
\* periodic check neither ends the call by an exception nor shortens it: the
\* bearer token stays the one held before the refresh, every publish made
\* under that check carries it, and once the call has returned every record
\* of the list has been dealt with and, in a live run, transmitted.
C21_FailedRefreshKeepsBatch ==
  /\ ~Raised
  /\ \A k \in FailedChecks : checks[k].after = checks[k].before
  /\ \A k \in 1..Len(sent) :
       LET c == GoverningCheck(sent[k].idx) IN
       (c.refreshed /\ ~c.ok) => sent[k].jwt = c.before
  /\ (Returned /\ FailedChecks # {}) =>
       /\ returned.total = Len(comments)
       /\ Len(verdicts) = Len(comments)
       /\ Len(payloads) = Len(comments)
       /\ ~dry_run => Transmitted = 1..Len(comments)

\* C21 witness: a live call over 51 records has returned; the refresh
\* failed after its POST both before the first record and at the check of
\* record 50, and the last record went out with the token the call began
\* with.
C21_Witness ==
  /\ Returned
  /\ ~dry_run
  /\ Len(comments) = TokenCheckInterval + 1
  /\ FailedChecks = {1, 2}
  /\ checks[2].at = TokenCheckInterval
  /\ last_refresh.posts = 1
  /\ sent[Len(sent)].idx = TokenCheckInterval + 1
  /\ sent[Len(sent)].jwt = checks[1].before

\* C22: the upload flow and the importer share one credential state: after
\* any refreshes made by either component, AssetCreator and CommentImporter
\* hold the same bearer token and the same refresh token.
C22_SharedCredentials ==
  /\ jwt_token = ac_jwt_token
  /\ refresh_token = ac_refresh_token

\* ------------------------------------------------------ _token_expires_soon

\* Twice the token's remaining lifetime at the clock's instant, in seconds.
TwiceRemaining(token, clock) == 2 * token.exp - (2 * clock.s + clock.half)

InCall == call_no > 0 /\ pc # "raised"

\* C24: during an import call the expiry is checked once before the first
\* record and then at the head of the loop iteration of each record whose
\* 1-based position is a multiple of 50, once each and nowhere else; at a
\* check _refresh_token is called if and only if the token is found to
\* expire soon.
C24_CheckPositions ==
  InCall =>
    /\ Len(checks) = 1 + (idx \div TokenCheckInterval)
    /\ checks[1].at = 0
    /\ \A k \in 2..Len(checks) : checks[k].at = (k - 1) * TokenCheckInterval
    /\ \A k \in 1..Len(checks) :
         checks[k].refreshed <=>
           TokenExpiresSoon(checks[k].before, checks[k].time, ExpiryThreshold)

\* C24 witness: a call over 51 records has returned with two checks, before
\* the first record and at record 50; the token was good at the first and
\* expiring at the second, where the refresh was attempted.
C24_Witness ==
  /\ Returned
  /\ Len(comments) = TokenCheckInterval + 1
  /\ Len(checks) = 2
  /\ checks[2].at = TokenCheckInterval
  /\ ~checks[1].refreshed
  /\ checks[2].refreshed
  /\ checks[2].time > checks[1].time

\* Checks of the running call at which a refresh replaced the bearer token.
Replacements ==
  { k \in 1..Len(checks) : checks[k].ok /\ checks[k].after # checks[k].before }

\* C25: once a refresh has succeeded during an import call, before the first
\* record or at a periodic check, every publish attempt made from then on in
\* that call, first attempts and retries alike, carries the new bearer
\* token, and every attempt made before it carried the token held until
\* then.
C25_AttemptsCarryCurrentToken ==
  InCall =>
    /\ \A k \in 1..Len(sent) : sent[k].jwt = GoverningCheck(sent[k].idx).after
    /\ \A j \in 2..Len(checks) : checks[j].before = checks[j - 1].after
    /\ \A j \in Replacements : \A k \in 1..Len(sent) :
         IF sent[k].idx >= checks[j].at
           THEN sent[k].jwt.serial >= checks[j].after.serial
           ELSE sent[k].jwt.serial < checks[j].after.serial
    /\ pc \in {"retry500", "wrapper"} => jwt_token = sent[Len(sent)].jwt

\* C25 witness: in a live call the refresh at the check of record 50
\* succeeded; records 1..49 went out with the old token, and record 50 was
\* published three times, every time with the new one.
C25_Witness ==
  /\ ~dry_run
  /\ idx = TokenCheckInterval
  /\ Replacements = {2}
  /\ attempts = 3
  /\ Len(sent) = TokenCheckInterval + 2
  /\ \A k \in 1..(TokenCheckInterval - 1) : sent[k].jwt = checks[2].before
  /\ \A k \in TokenCheckInterval..Len(sent) :
       sent[k].idx = TokenCheckInterval /\ sent[k].jwt = checks[2].after

\* ------------------------------------------------------------------ pacing

\* Records of the running call that have been dealt with.
Done == Len(verdicts)

\* C26: import_comments sleeps for the rate limit exactly once after each
\* record except the last, whether the record was imported or failed and in
\* dry-run mode too: N-1 sleeps for a list of N >= 1 records, none for an
\* empty list, none after the last record.
C26_RateLimitSleeps ==
  InCall =>
    /\ rate_sleeps = IF Done < Len(comments) THEN Done
                     ELSE IF Len(comments) = 0 THEN 0 ELSE Len(comments) - 1
    /\ Returned => rate_sleeps = (IF Len(comments) = 0 THEN 0
                                  ELSE Len(comments) - 1)

\* C26 witness: a live call over two records has returned after one sleep;
\* the first record was imported and the last one failed.
C26_Witness ==
  /\ Returned
  /\ ~dry_run
  /\ Len(comments) = 2
  /\ verdicts[1] \in Successes
  /\ verdicts[2] \in Failures
  /\ rate_sleeps = 1

\* C27: between any two consecutive publish calls of one import call, for
\* two records or for two attempts of one record, at least one sleep takes
\* place: every record but the first is preceded by a rate-limit sleep, and
\* the attempts of a record are separated by backoff sleeps.
C27_SleepBetweenPosts ==
  (InCall /\ ~dry_run) =>
    /\ attempts >= 1 => Len(waits) >= attempts - 1
    /\ idx >= 1 => rate_sleeps >= idx - 1

\* -------------------------------------------------------------- process_list

\* process_video of video v ends in an error result or in an Exception.
VideoFails(v) ==
  \/ v.meets.info = "raise"
  \/ run_mode.comments_only /\ ~run_mode.asset_id /\ ~run_mode.dry_run
  \/ /\ ~run_mode.comments_only /\ ~run_mode.dry_run
     /\ v.meets.signed = "error" \/ v.meets.upload = "fail"
  \/ ~run_mode.comments_only /\ v.meets.upload = "missing"
  \/ /\ run_mode.comments_only \/ ~run_mode.video_only
     /\ v.meets.import = "raise"

\* C28: process_list takes the loaded videos in list order, one at a time,
\* and returns one result per video in that order; a video whose processing
\* ends in an error result or in an exception other than an interrupt gets
\* success = False, and the videos after it are still processed.
C28_ListOrderAndIsolation ==
  run_entry = "process_list" =>
    /\ Len(results) <= Len(videos)
    /\ \A k \in 1..Len(results) :
         /\ results[k].url = videos[k].url
         /\ results[k].success <=> ~VideoFails(videos[k])
    /\ run_pc = "returned" => Len(results) = Len(videos)

\* C28 witness: process_list has returned two results; the first video
\* raised in extract_video_info and has success = False, the second one was
\* processed after it and succeeded.
C28_Witness ==
  /\ run_entry = "process_list"
  /\ run_pc = "returned"
  /\ Len(videos) = 2
  /\ videos[1].meets.info = "raise"
  /\ ~results[1].success
  /\ results[2].url = 2
  /\ results[2].success

\* C29: when an interrupt arrives while video k is being processed, the run
\* stops at once, and the results of the completed videos 1..k-1 are kept
\* and reported in the aggregate summary before the process exits.
C29_InterruptReportsCompleted ==
  (run_pc = "interrupted" \/ exit_status = MainHandler("KeyboardInterrupt")) =>
    /\ summary.printed
    /\ summary.total = Len(results)

\* C30: for every run that gets past authentication, in every mode, if no
\* video of the list fails (a list without videos included) the process
\* ends with exit status 0.
C30_NoFailureExitsZero ==
  (run_entry = "main" /\ run_pc = "exited"
     /\ \A k \in 1..Len(videos) : ~VideoFails(videos[k])) =>
    exit_status = 0

\* C31: for every run, in every mode, dry-run included, if at least one
\* video of the list fails the process ends with a non-zero exit status,
\* after the batch summary has been reported.
C31_FailureExitsNonZero ==
  (run_entry = "main" /\ run_pc = "exited"
     /\ \E k \in 1..Len(videos) : VideoFails(videos[k])) =>
    /\ exit_status # 0
    /\ summary.printed

\* ------------------------------------------------------- _extract_timestamp

StampCalled == st_result # -1

\* The phrase "at 12:34" stands at position i of the text.
PhraseAt(text, i) == \A k \in 1..Len(Phrase) : Ch(text, i + k - 1) = Phrase[k]

\* At position k stands "at" or "@" (any case), then blanks, then a time
\* token d:dd or dd:dd.
AtTimeAt(text, k) ==
  \E a \in 1..2, w \in 0..Len(text), n \in 1..2 :
    /\ \/ a = 2 /\ Lower(Ch(text, k)) = "a" /\ Lower(Ch(text, k + 1)) = "t"
       \/ a = 1 /\ Ch(text, k) = "@"
    /\ \A b \in 0..(w - 1) : Ch(text, k + a + b) = " "
    /\ \A d \in 0..(n - 1) : IsDigit(Ch(text, k + a + w + d))
    /\ Ch(text, k + a + w + n) = ":"
    /\ IsDigit(Ch(text, k + a + w + n + 1))
    /\ IsDigit(Ch(text, k + a + w + n + 2))

\* ':' and two digits stand at position k.
SecondsAt(text, k) ==
  Ch(text, k) = ":" /\ IsDigit(Ch(text, k + 1)) /\ IsDigit(Ch(text, k + 2))

TwoDigits(text, k) == 10 * DigitValue(text[k]) + DigitValue(text[k + 1])

\* The whole text is d:dd or dd:dd (n digits first), with or without :dd.
WholeToken(text, n, third) ==
  /\ Len(text) = n + 3 + (IF third THEN 3 ELSE 0)
  /\ \A d \in 1..n : IsDigit(text[d])
  /\ SecondsAt(text, n + 1)
  /\ third => SecondsAt(text, n + 4)

LeadingNumber(text, n) ==
  IF n = 1 THEN DigitValue(text[1]) ELSE TwoDigits(text, 1)

\* C32 as stated: every text that contains the phrase "at 12:34" gives 754,
\* whatever stands before or directly after the phrase.
C32_PhraseGives754 ==
  (StampCalled /\ \E i \in 1..Len(st_text) : PhraseAt(st_text, i)) =>
    st_result = 754

\* C32 as the code has it: the phrase "at 12:34" gives 754 when no "at"/"@"
\* with a time token stands before it and no ":dd" directly follows it; with
\* ":dd" directly after it the result is 12 h 34 min dd s.  A text that is
\* one time token is converted as minutes*60 + seconds (two groups) or
\* hours*3600 + minutes*60 + seconds (three groups).
C32_FirstAtPhraseDecides ==
  StampCalled =>
    /\ \A i \in 1..Len(st_text) :
         (PhraseAt(st_text, i) /\ \A k \in 1..(i - 1) : ~AtTimeAt(st_text, k)) =>
           IF SecondsAt(st_text, i + Len(Phrase))
             THEN st_result = 12 * 3600 + 34 * 60
                                + TwoDigits(st_text, i + Len(Phrase) + 1)
             ELSE st_result = 12 * 60 + 34
    /\ \A n \in 1..2 :
         /\ WholeToken(st_text, n, FALSE) =>
              st_result = LeadingNumber(st_text, n) * 60
                            + TwoDigits(st_text, n + 2)
         /\ WholeToken(st_text, n, TRUE) =>
              st_result = LeadingNumber(st_text, n) * 3600
                            + TwoDigits(st_text, n + 2) * 60
                            + TwoDigits(st_text, n + 5)

\* A text with another time token before the phrase has given 754.
C32_Witness ==
  /\ st_result = 754
  /\ \E i \in 2..Len(st_text) :
       /\ PhraseAt(st_text, i)
       /\ \E k \in 1..(i - 1) : TimeToken(st_text, k, FALSE).found

\* -------------------------------------------------------- anonymize_comment

\* The step is one anonymize_comment call, on record apos + 1.
AnonymizeStep == apos' = apos + 1

AuthorKeys == {"user_name", "profile_picture", "created_by_id"}

\* The record passed in keeps every field that is not an author field, gets
\* no field beyond the author fields, and every other record is unchanged.
RecordsKept ==
  /\ Len(arecords') = Len(arecords)
  /\ \A j \in 1..Len(arecords) : j # apos + 1 => arecords'[j] = arecords[j]
  /\ LET before == arecords[apos + 1]
         after == arecords'[apos + 1]
     IN  /\ (DOMAIN before) \ AuthorKeys = (DOMAIN after) \ AuthorKeys
         /\ \A key \in (DOMAIN before) \ AuthorKeys : after[key] = before[key]

\* Everything outside the UserRandomizer and the record list.
RestKept ==
  UNCHANGED <<importer_vars, frame_vars, ghost_vars, video_vars, cred_vars,
              aux_vars, originals, first_pass, apass>>

\* C33 as stated: anonymize_comment changes nothing but the three author
\* fields of the record passed in and the identity maps; the record's other
\* fields, every other record and all other program state stay as they were.
C33_OnlyAuthorFieldsAndMaps ==
  [][AnonymizeStep => RecordsKept /\ RestKept /\ UNCHANGED rng_state]_vars

\* C33 as the code has it: anonymize_comment changes nothing but the three
\* author fields of the record passed in, the identity maps and the state of
\* the random module's generator.
C33_FrameWithGenerator ==
  [][AnonymizeStep => RecordsKept /\ RestKept]_vars

\* A record of a list of two has been anonymized, its name drawn anew, and
\* the generator is no longer in the state it started in.
C33_Witness ==
  /\ apass = "first"
  /\ apos = 2
  /\ Len(arecords) >= 2
  /\ "created_by_id" \in DOMAIN arecords[2]
  /\ arecords[2].yt_id = originals[2].yt_id
  /\ rng_state # [reseeds |-> 0, draws |-> 0]

\* ------------------------------------------------------------ retry policy

\* The current record's first publish attempt was answered with HTTP 500:
\* the first wait made for it is the fixed wait before the single retry.
FirstAnswered500 ==
  ~dry_run /\ attempts >= 1 /\ waits # <<>> /\ Head(waits) = Retry500Delay

\* C34: a record whose first publish attempt is answered with HTTP 500 is
\* retried only once: it is transmitted at most twice, whatever the retry
\* brings.
C34_OneRetryAfter500 == FirstAnswered500 => attempts <= 2

\* Sleeps made by the retry wrapper for the current record: the waits made
\* for it, less the fixed wait after a first 500.
WrapperSleeps(w) ==
  Len(w) - (IF w # <<>> /\ Head(w) = Retry500Delay THEN 1 ELSE 0)

\* C35: a function wrapped by retry_with_backoff(max_retries = m) is invoked
\* at most m+1 times per call of the wrapper; the value of the first
\* invocation that does not raise is returned and nothing more is invoked; a
\* listed exception is followed by a sleep and another invocation until m+1
\* invocations have raised, then the last one is re-raised after exactly m
\* sleeps; an exception that is not listed propagates at once, with no sleep
\* and no retry.
C35_RetryWithBackoff ==
  [][pc = "wrapper" =>
       /\ attempt <= max_retries
       /\ attempts' = attempts + 1
       /\ CASE Raises(last') = "none" ->
                 pc' # "wrapper" /\ waits' = waits
            [] IsRequestException(Raises(last')) /\ attempt < max_retries ->
                 /\ pc' = "wrapper"
                 /\ attempt' = attempt + 1
                 /\ Len(waits') = Len(waits) + 1
            [] IsRequestException(Raises(last')) /\ attempt >= max_retries ->
                 /\ pc' # "wrapper"
                 /\ waits' = waits
                 /\ WrapperSleeps(waits) = max_retries
                 /\ failed_count' = failed_count + 1
            [] OTHER ->
                 pc' # "wrapper" /\ waits' = waits]_vars

\* With max_retries = 2 the wrapper has been left after three invocations
\* that all raised a listed exception, and two sleeps.
C35_Witness ==
  /\ max_retries = 2
  /\ pc = "loop"
  /\ attempt = max_retries
  /\ last \notin Accepting
  /\ IsRequestException(Raises(last))
  /\ WrapperSleeps(waits) = max_retries
  /\ attempts >= max_retries + 2

\* ------------------------------------------------------------ process_video

\* For video v, get_signed_url came back without an error and the upload
\* succeeded: in dry-run neither talks to the backend, and the upload still
\* needs the downloaded file.
Uploaded(v) ==
  /\ run_mode.dry_run \/ v.meets.signed = "ok"
  /\ v.meets.upload # "missing"
  /\ run_mode.dry_run \/ v.meets.upload = "ok"

\* C36: when comments_only is off, no live-chat or comment import call is
\* made for a video unless get_signed_url returned without error and the
\* upload succeeded; if either fails the video's result has success = False
\* and no import call, and with video_only no import call is made at all.
C36_ImportOnlyAfterUpload ==
  (run_entry = "process_list" /\ ~run_mode.comments_only) =>
    \A k \in 1..Len(results) :
      /\ results[k].import_calls > 0 => Uploaded(videos[k])
      /\ (videos[k].meets.info = "ok" /\ ~Uploaded(videos[k])) =>
           ~results[k].success /\ results[k].import_calls = 0
      /\ run_mode.video_only => results[k].import_calls = 0

\* A live run without comments_only has processed a video whose upload
\* failed, with no import call, and one whose upload succeeded, with one.
C36_Witness ==
  /\ run_entry = "process_list"
  /\ ~run_mode.comments_only /\ ~run_mode.dry_run /\ ~run_mode.video_only
  /\ Len(results) = 2
  /\ videos[1].meets.info = "ok" /\ videos[1].meets.signed = "ok"
  /\ videos[1].meets.upload = "fail"
  /\ ~results[1].success /\ results[1].import_calls = 0
  /\ Uploaded(videos[2]) /\ results[2].import_calls = 1

\* import_comments has returned or has been left by an exception.
Ended == pc = "idle" \/ pc = "raised"

\* C37: for every record list and every sequence of remote outcomes
\* import_comments terminates, and no record gets more than max_retries + 3
\* publish attempts (6 with the default max_retries = 3).
C37_TerminatesWithBoundedAttempts ==
  /\ [](attempts <= max_retries + 3)
  /\ (call_no > 0) ~> Ended

\* With the default max_retries a call has returned whose last record was
\* posted six times.
C37_Witness ==
  /\ Returned
  /\ max_retries = DefaultMaxRetries
  /\ attempts = max_retries + 3

\* Outcomes in which the remote answered the publish with a 2xx status.
Answered2xx == { o \in Outcomes \cup Unparseable : StatusOf(o) \in 200..299 }

\* C38: within one import call, once a publish attempt for a record has been
\* answered with a 2xx status, no further publish attempt is made for that
\* record, whatever the response body is.
C38_NoPostAfter2xx ==
  [][(idx' = idx /\ attempts' = attempts + 1) => seen \cap Answered2xx = {}]_vars

====
